---- MODULE Spec2Model ----
(***************************************************************************)
(* Model of oci_utils.vnicutils.VNICUtils: the correlation of instance     *)
(* metadata with the kernel's network devices (get_network_config) and the *)
(* operations that act on the correlated view (auto_config, auto_deconfig, *)
(* del_private_ip, add_private_ip, exclude, include), with the executors   *)
(* that configure and deconfigure one interface and what their commands do *)
(* to the devices, routing tables, rules and namespaces of the host.       *)
(***************************************************************************)
EXTENDS Integers, Sequences, FiniteSets, TLC

VARIABLES
    shape,      \* InstanceMetadata()['instance']['shape']
    vnics,      \* InstanceMetadata()['vnics'], in API order
    devices,    \* NetworkHelpers.get_network_namespace_infos(), flattened
    host,       \* the rest of the host's network state: routing tables, policy
                \* rules, network namespaces, MACs NetworkManager leaves alone
    vnic_info,  \* VNICUtils.vnic_info (in memory)
    saved,      \* content of the vnic_info file
    net_exclude,\* the obsolete net_exclude file
    cmds,       \* commands issued by the last operation, in order
    last,       \* the last operation: its name, arguments and outcome
    prev,       \* the operation before the last one (name and outcome)
    before      \* the last configure pass: devices and host as they were when it
                \* began, and what was done since

vars == <<shape, vnics, devices, host, vnic_info, saved, net_exclude, cmds, last, prev,
          before>>

-----------------------------------------------------------------------------
(* Bounds of the model *)

MaxDevs == 2
MaxVnics == 2
MaxExcl == 1
MaxFail == 4
MaxSecIps == 2
MaxArgs == 3

-----------------------------------------------------------------------------
(* _intf_dict: a dict whose missing keys read as '-' *)

Missing == "-"

Get(d, k) == IF k \in DOMAIN d THEN d[k] ELSE Missing

\* every value is stored as str, so a key that is present is never None
Has(d, k) == k \in DOMAIN d

Put(d, k, v) == [x \in (DOMAIN d) \cup {k} |-> IF x = k THEN v ELSE d[x]]

\* dict.update(other)
Update(d, other) ==
    [x \in (DOMAIN d) \cup (DOMAIN other) |-> IF x \in DOMAIN other THEN other[x] ELSE d[x]]

NewIntf == [CONFSTATE |-> "uncfg"]

\* the items of a list
Items(l) == {l[k] : k \in 1..Len(l)}

\* truth value of a Python str
Truthy(s) == s # ""

\* str.upper() on the MAC strings of the model
Upper(m) ==
    CASE m = "m1" -> "M1"
      [] m = "m2" -> "M2"
      [] m = "m3" -> "M3"
      [] OTHER -> m

\* str.startswith('BM') on the shapes of the model
IsBM(s) == s \in {"BM.Standard2.52", "BM.GPU3.8"}

-----------------------------------------------------------------------------
(* get_network_config *)

\* the filter on the devices of the inventory
Retained(i) ==
    /\ ~("NO-CARRIER" \in i.flags \/ "LOOPBACK" \in i.flags)
    /\ i.type = "ether"

\* the record built from one device of the inventory
SystemIntf(i) ==
    LET r1 == IF Truthy(i.mac) THEN Put(NewIntf, "MAC", i.mac) ELSE NewIntf
        r2 == Put(Update(r1, [IFACE |-> i.device,
                              LINK |-> i.link,
                              LINKTYPE |-> IF i.subtype # "" THEN i.subtype ELSE "ether",
                              IND |-> i.index]),
                  "STATE", i.opstate)
        r3 == IF i.ns # "" THEN Put(r2, "NS", i.ns) ELSE r2
        r4 == IF Truthy(i.vlanid) THEN Put(r3, "VLAN", i.vlanid) ELSE r3
    IN  IF Len(i.addresses) > 0
        THEN LET a == Update(r4, [CONFSTATE |-> "-", ADDR |-> i.addresses[1]])
             IN  IF Len(i.addresses) > 1
                 THEN Put(a, "SECONDARY_ADDR", i.addresses[2])
                 ELSE a
        ELSE IF ~i.is_vf THEN Put(r4, "CONFSTATE", "DELETE") ELSE r4

RECURSIVE AllFromSystem(_)
AllFromSystem(devs) ==
    IF devs = <<>> THEN <<>>
    ELSE IF Retained(Head(devs))
         THEN <<SystemIntf(Head(devs))>> \o AllFromSystem(Tail(devs))
         ELSE AllFromSystem(Tail(devs))

\* mutant: _first_loop is never reset
MetadataIntfAllPrimary(md, first) ==
    LET r2 == Update(Put(NewIntf, "IS_PRIMARY", "True"),
                     [MAC |-> Upper(md.macAddr),
                      ADDR |-> md.privateIp,
                      SPREFIX |-> md.subnetCidrBlock[1],
                      SBITS |-> md.subnetCidrBlock[2],
                      VIRTRT |-> md.virtualRouterIp,
                      VLTAG |-> md.vlanTag,
                      VNIC |-> md.vnicId])
    IN  IF "nicIndex" \in DOMAIN md THEN Put(r2, "NIC_I", md.nicIndex) ELSE r2

\* the record built from one VNIC of the metadata; first: it is the first of the list
MetadataIntf(md, first) ==
    LET r1 == IF first THEN Put(NewIntf, "IS_PRIMARY", "True") ELSE NewIntf
        r2 == Update(r1, [MAC |-> Upper(md.macAddr),
                          ADDR |-> md.privateIp,
                          SPREFIX |-> md.subnetCidrBlock[1],
                          SBITS |-> md.subnetCidrBlock[2],
                          VIRTRT |-> md.virtualRouterIp,
                          VLTAG |-> md.vlanTag,
                          VNIC |-> md.vnicId])
    IN  IF "nicIndex" \in DOMAIN md THEN Put(r2, "NIC_I", md.nicIndex) ELSE r2

AllFromMetadata(mds) == [k \in 1..Len(mds) |-> MetadataIntf(mds[k], k = 1)]

WithMac(pool, mac) ==
    LET same(i) == Get(i, "MAC") = mac IN SelectSeq(pool, same)

WithoutMac(pool, mac) ==
    LET other(i) == Get(i, "MAC") # mac IN SelectSeq(pool, other)

OfLinkType(cands, t) ==
    LET is(i) == Get(i, "LINKTYPE") = t IN SelectSeq(cands, is)

\* mutant: a single match is tagged from the tag of the device and stays in the
\* pool
CorrelateOneByDevice(interface, pool) ==
    LET cands == WithMac(pool, Get(interface, "MAC"))
    IN  IF Len(cands) = 1
        THEN [raised |-> FALSE, pool |-> pool, interface |-> Update(interface, cands[1])]
        ELSE [raised |-> FALSE, pool |-> WithoutMac(pool, Get(interface, "MAC")),
              interface |-> Put(interface, "CONFSTATE", "ADD")]

\* mutant: with two candidates the device name is the link of the VLAN device
CorrelateOneVlanLink(interface, pool) ==
    LET cands == WithMac(pool, Get(interface, "MAC"))
        rest == WithoutMac(pool, Get(interface, "MAC"))
    IN  IF Len(cands) = 0
        THEN [raised |-> FALSE, pool |-> rest,
              interface |-> Put(interface, "CONFSTATE", "ADD")]
        ELSE IF Len(cands) = 1
        THEN [raised |-> FALSE, pool |-> rest,
              interface |-> Put(Update(interface, cands[1]), "CONFSTATE",
                                IF Has(cands[1], "ADDR") THEN "-" ELSE "ADD")]
        ELSE LET macvlans == OfLinkType(cands, "macvlan")
                 vlans == OfLinkType(cands, "vlan")
             IN  IF macvlans = <<>> \/ vlans = <<>>
                 THEN [raised |-> TRUE, pool |-> pool, interface |-> interface]
                 ELSE LET m == Update(interface, macvlans[1])
                          v == Put(m, "VLAN", Get(vlans[1], "IFACE"))
                          f == Put(v, "IFACE", Get(vlans[1], "LINK"))
                      IN  [raised |-> FALSE, pool |-> rest,
                           interface |-> Put(f, "CONFSTATE",
                                IF Has(vlans[1], "ADDR") THEN "-" ELSE "ADD")]

\* the body of the correlation loop for one metadata record:
\* the record appended, the pool left, and whether an IndexError escaped
CorrelateOne(interface, pool) ==
    LET cands == WithMac(pool, Get(interface, "MAC"))
        rest == WithoutMac(pool, Get(interface, "MAC"))
    IN  IF Len(cands) = 0
        THEN [raised |-> FALSE, pool |-> rest,
              interface |-> Put(interface, "CONFSTATE", "ADD")]
        ELSE IF Len(cands) = 1
        THEN [raised |-> FALSE, pool |-> rest,
              interface |-> Put(Update(interface, cands[1]), "CONFSTATE",
                                IF Has(cands[1], "ADDR") THEN "-" ELSE "ADD")]
        ELSE LET macvlans == OfLinkType(cands, "macvlan")
                 vlans == OfLinkType(cands, "vlan")
             IN  IF macvlans = <<>> \/ vlans = <<>>
                 THEN [raised |-> TRUE, pool |-> pool, interface |-> interface]
                 ELSE LET m == Update(interface, macvlans[1])
                          v == Put(m, "VLAN", Get(vlans[1], "IFACE"))
                          f == Put(v, "IFACE", Get(macvlans[1], "LINK"))
                      IN  [raised |-> FALSE, pool |-> rest,
                           interface |-> Put(f, "CONFSTATE",
                                IF Has(vlans[1], "ADDR") THEN "-" ELSE "ADD")]

RECURSIVE Correlate(_, _, _)
Correlate(mds, pool, interfaces) ==
    IF mds = <<>> THEN [raised |-> FALSE, pool |-> pool, interfaces |-> interfaces]
    ELSE LET one == CorrelateOne(Head(mds), pool)
         IN  IF one.raised
             THEN [raised |-> TRUE, pool |-> pool,
                   interfaces |-> Append(interfaces, one.interface)]
             ELSE Correlate(Tail(mds), one.pool, Append(interfaces, one.interface))

\* the devices no VNIC claimed, each its own record
LeftOnSystem(pool) == [k \in 1..Len(pool) |-> Put(pool[k], "CONFSTATE", "DELETE")]

\* mutant: the address of the interface is not compared
IsIntfExcludedNoAddr(exclude, interface) ==
    \E k \in 1..Len(exclude) :
        exclude[k] \in {Get(interface, "IFACE"), Get(interface, "VNIC")}

_is_intf_excluded(exclude, interface) ==
    \E k \in 1..Len(exclude) :
        exclude[k] \in {Get(interface, "IFACE"), Get(interface, "VNIC"), Get(interface, "ADDR")}

\* mutant: the final round leaves the primary alone
FinalRoundSkipPrimary(exclude, interface) ==
    IF _is_intf_excluded(exclude, interface) /\ ~Has(interface, "IS_PRIMARY")
    THEN Put(interface, "CONFSTATE", "EXCL")
    ELSE IF Get(interface, "CONFSTATE") = "DELETE" THEN Put(interface, "CONFSTATE", "-")
    ELSE interface

\* mutant: the final round does not revert DELETE
FinalRoundKeepDelete(exclude, interface) ==
    IF _is_intf_excluded(exclude, interface)
    THEN Put(interface, "CONFSTATE", "EXCL")
    ELSE interface

\* the final round, for one record
FinalRound(exclude, interface) ==
    LET e == IF _is_intf_excluded(exclude, interface)
             THEN Put(interface, "CONFSTATE", "EXCL")
             ELSE interface
    IN  IF Truthy(Get(e, "is_vf")) /\ Get(e, "CONFSTATE") = "DELETE"
        THEN Put(e, "CONFSTATE", "-")
        ELSE e

\* [raised, interfaces]: raised when the IndexError of the correlation escapes
get_network_config(mds, devs, exclude) ==
    LET c == Correlate(AllFromMetadata(mds), AllFromSystem(devs), <<>>)
        all == c.interfaces \o LeftOnSystem(c.pool)
    IN  IF c.raised
        THEN [raised |-> TRUE, interfaces |-> <<>>]
        ELSE [raised |-> FALSE,
              interfaces |-> [k \in 1..Len(all) |-> FinalRound(exclude, all[k])]]

-----------------------------------------------------------------------------
(* Commands: a step of a plan is one call of sudo_utils.call or of a function of
   NetworkHelpers, with the record it is issued for *)

IP == "/usr/sbin/ip"

\* what a command does to the devices and the host when it succeeds
NoEffect == [kind |-> "none"]
AddrDel(dev, ns, addr) == [kind |-> "addr_del", dev |-> dev, ns |-> ns, addr |-> addr]
LinkDel(dev) == [kind |-> "link_del", dev |-> dev]
NetnsDel(ns) == [kind |-> "netns_del", ns |-> ns]
NetnsAdd(ns) == [kind |-> "netns_add", ns |-> ns]
LinkUp(dev, ns) == [kind |-> "link_up", dev |-> dev, ns |-> ns]
LinkAdd(dev, link, subtype, mac, vlanid) ==
    [kind |-> "link_add", dev |-> dev, link |-> link, subtype |-> subtype, mac |-> mac,
     vlanid |-> vlanid]
LinkNetns(dev, ns) == [kind |-> "link_netns", dev |-> dev, ns |-> ns]
TableAdd(name) == [kind |-> "table_add", name |-> name]
TableDel(name) == [kind |-> "table_del", name |-> name]
RuleAdd(from, table) == [kind |-> "rule_add", from |-> from, table |-> table]
RulesDel(of) == [kind |-> "rules_del", of |-> of]
NmUnmanage(mac) == [kind |-> "nm_unmanage", mac |-> mac]
NmManage(mac) == [kind |-> "nm_manage", mac |-> mac]

\* mutant: the return code of the command is not tested, nothing is raised
CallUnraised(argv, intf, valid, effect) ==
    [argv |-> argv, intf |-> intf, fatal |-> FALSE, valid |-> valid, effect |-> effect]

\* a sudo_utils.call whose non-zero return code raises
Call(argv, intf, valid, effect) ==
    [argv |-> argv, intf |-> intf, fatal |-> TRUE, valid |-> valid, effect |-> effect]

\* a sudo_utils.call or a NetworkHelpers function whose result is not checked
Helper(argv, intf, effect) ==
    [argv |-> argv, intf |-> intf, fatal |-> FALSE, valid |-> TRUE, effect |-> effect]

\* a field of the record put in a command line: ip accepts no '-' for it
Given(intf, k) == Get(intf, k) # Missing

\* mutant: the name is derived from the interface index on every shape
RoutingTableNameByIndex(s, interface_info) == "ort" \o Get(interface_info, "IND")

_compute_routing_table_name(s, interface_info) ==
    IF IsBM(s)
    THEN "ort" \o Get(interface_info, "NIC_I") \o "vl" \o Get(interface_info, "VLTAG")
    ELSE "ort" \o Get(interface_info, "IND")

_auto_deconfig_intf_routing(s, intf_infos) ==
    IF ~Has(intf_infos, "NS")
    THEN LET name == _compute_routing_table_name(s, intf_infos)
         IN  << Helper(<<"NetworkHelpers.remove_ip_addr_rules", name>>, intf_infos,
                       RulesDel(name)),
                Helper(<<"NetworkHelpers.delete_route_table", name>>, intf_infos,
                       TableDel(name)) >>
    ELSE <<>>

\* mutant: NetworkManager is given the MAC back before anything is removed
DeconfigNmFirst(s, intf_infos) ==
    <<Helper(<<"NetworkHelpers.add_mac_to_nm", Get(intf_infos, "MAC")>>,
             intf_infos, NmManage(Get(intf_infos, "MAC")))>>
    \o _auto_deconfig_intf_routing(s, intf_infos)
    \o (IF Has(intf_infos, "ADDR") /\ ~Has(intf_infos, "VLAN") /\ ~Has(intf_infos, "NS")
        THEN <<Call(<<IP, "addr", "del",
                      Get(intf_infos, "ADDR") \o "/" \o Get(intf_infos, "SBITS"),
                      "dev", Get(intf_infos, "IFACE")>>,
                    intf_infos, TRUE,
                    AddrDel(Get(intf_infos, "IFACE"), "", Get(intf_infos, "ADDR")))>>
        ELSE <<>>)

\* the steps of _auto_deconfig_intf, in order; 'netns,' is no object of ip, so a
\* command line that holds it cannot succeed
_auto_deconfig_intf(s, intf_infos) ==
    LET in_ns == Has(intf_infos, "NS")
        _ip_cmd == IF in_ns
                   THEN <<IP, "netns,", "exec", Get(intf_infos, "NS"), IP>>
                   ELSE <<IP>>
        _macvlan_name == Get(intf_infos, "IFACE") \o "." \o Get(intf_infos, "VLTAG")
    IN  (IF in_ns
         THEN <<Helper(<<"NetworkHelpers.kill_processes_in_namespace",
                         Get(intf_infos, "NS")>>, intf_infos, NoEffect)>>
         ELSE <<>>)
        \o _auto_deconfig_intf_routing(s, intf_infos)
        \o (IF Has(intf_infos, "VLAN")
            THEN <<Call(_ip_cmd \o <<"link", "del", "link", Get(intf_infos, "VLTAG"),
                                      "dev", _macvlan_name>>,
                        intf_infos,
                        ~in_ns /\ Given(intf_infos, "VLTAG") /\ Given(intf_infos, "IFACE"),
                        LinkDel(_macvlan_name))>>
            ELSE IF Has(intf_infos, "ADDR")
            THEN << Call(_ip_cmd \o <<"addr", "del",
                                       Get(intf_infos, "ADDR") \o "/" \o Get(intf_infos, "SBITS"),
                                       "dev", Get(intf_infos, "IFACE")>>,
                         intf_infos,
                         ~in_ns /\ Given(intf_infos, "SBITS") /\ Given(intf_infos, "IFACE"),
                         AddrDel(Get(intf_infos, "IFACE"), "", Get(intf_infos, "ADDR"))),
                    Helper(<<"NetworkHelpers.remove_ip_addr_rules", Get(intf_infos, "ADDR")>>,
                           intf_infos, RulesDel(Get(intf_infos, "ADDR"))) >>
            ELSE <<>>)
        \o (IF in_ns
            THEN <<Call(<<IP, "netns", "delete", Get(intf_infos, "NS")>>, intf_infos, TRUE,
                        NetnsDel(Get(intf_infos, "NS")))>>
            ELSE <<>>)
        \o <<Helper(<<"NetworkHelpers.add_mac_to_nm", Get(intf_infos, "MAC")>>,
                    intf_infos, NmManage(Get(intf_infos, "MAC")))>>

_deconfig_secondary_addr(intf, device, address, namespace) ==
    LET in_ns == Truthy(namespace) /\ namespace # "-"
    IN  << Helper(<<"NetworkHelpers.remove_ip_addr_rules", address>>, intf,
                  RulesDel(address)),
           \* in a namespace the command line is 'ip netns exec <ns> addr del ...':
           \* the program run in the namespace is 'addr', which does not exist
           Call(<<IP>>
                \o (IF in_ns THEN <<"netns", "exec", namespace>> ELSE <<>>)
                \o <<"addr", "del", address \o "/32", "dev", device>>,
                intf, device # Missing /\ ~in_ns,
                AddrDel(device, IF in_ns THEN namespace ELSE "", address)) >>

\* the steps of del_private_ip once the record is found
DelPrivateIpSteps(i) ==
    << Helper(<<"NetworkHelpers.remove_ip_addr_rules", Get(i, "ADDR")>>, i,
              RulesDel(Get(i, "ADDR"))),
       Helper(<<"NetworkHelpers.remove_ip_addr", Get(i, "IFACE"), Get(i, "ADDR")>>
              \o (IF Has(i, "NS") THEN <<Get(i, "NS")>> ELSE <<>>), i,
              AddrDel(Get(i, "IFACE"), IF Has(i, "NS") THEN Get(i, "NS") ELSE "",
                      Get(i, "ADDR"))),
       Helper(<<"NetworkHelpers.add_mac_to_nm", Get(i, "MAC")>>, i,
              NmManage(Get(i, "MAC"))) >>

_INTF_MTU == 9000

\* str(_INTF_MTU)
MtuStr == ToString(_INTF_MTU)

AddrAdd(dev, ns, addr) == [kind |-> "addr_add", dev |-> dev, ns |-> ns, addr |-> addr]

\* no namespace requested (ns_i is None)
NoNamespace == [use |-> FALSE]

\* the namespace information auto_config computes from the preferences; last_intf
\* is the record the partition loop ended on
NamespaceInfo(info, last_intf) ==
    IF "ns" \in DOMAIN info
    THEN [use |-> TRUE,
          name |-> IF Truthy(info["ns"]) THEN info["ns"] ELSE "ons" \o Get(last_intf, "IFACE"),
          start_sshd |-> "sshd" \in DOMAIN info]
    ELSE NoNamespace

\* the steps of _auto_config_intf, in order
_auto_config_intf(s, net_namespace_info, intf_infos) ==
    LET iface == Get(intf_infos, "IFACE")
        vltag == Get(intf_infos, "VLTAG")
        in_ns == Has(intf_infos, "NS")
        stacked == IsBM(s) /\ vltag # "0"
        _vlan_name == iface \o "v" \o vltag
        _macvlan_name == iface \o "." \o vltag
        use_ns == net_namespace_info.use
        name == IF use_ns THEN net_namespace_info.name ELSE ""
        _ip_cmd_prefix == IF use_ns THEN <<IP, "netns,", "exec", name, IP>> ELSE <<IP>>
        target == IF stacked THEN _vlan_name ELSE iface
    IN  (IF Get(intf_infos, "STATE") # "up"
         THEN <<Call(<<IP, "link", "set", "dev", iface, "up">>, intf_infos,
                     iface # Missing, LinkUp(iface, ""))>>
         ELSE <<>>)
        \o (IF use_ns
            THEN <<Call(<<IP, "netns", "add", name>>, intf_infos, TRUE, NetnsAdd(name))>>
            ELSE <<>>)
        \o (IF stacked
            THEN <<Call((IF in_ns THEN <<IP, "netns,", "exec", Get(intf_infos, "NS"), IP>>
                                  ELSE <<IP>>)
                        \o <<"link", "add", "link", iface, "name", _macvlan_name,
                             "address", Get(intf_infos, "MAC"), "type", "macvlan">>,
                        intf_infos, ~in_ns /\ iface # Missing,
                        LinkAdd(_macvlan_name, iface, "macvlan", Get(intf_infos, "MAC"), ""))>>
                 \o (IF in_ns
                     THEN <<[Helper(<<IP, "netns,", "exec", Get(intf_infos, "NS"), IP,
                                      "link", "set", _macvlan_name, "netns", "1">>,
                                    intf_infos, NoEffect) EXCEPT !.valid = FALSE]>>
                     ELSE <<>>)
                 \o <<Call(<<IP, "link", "add", "link", _macvlan_name, "name", _vlan_name,
                             "type", "vlan", "id", vltag>>, intf_infos, TRUE,
                           LinkAdd(_vlan_name, _macvlan_name, "vlan", Get(intf_infos, "MAC"),
                                   vltag))>>
            ELSE <<>>)
        \o (IF use_ns
            THEN (IF stacked
                  THEN <<Call(<<IP, "link", "set", "dev", _macvlan_name, "netns", name>>,
                              intf_infos, TRUE, LinkNetns(_macvlan_name, name))>>
                  ELSE <<>>)
                 \o <<Call(<<IP, "link", "set", "dev", iface, "netns", name>>,
                           intf_infos, iface # Missing, LinkNetns(iface, name))>>
            ELSE <<>>)
        \o <<Call(_ip_cmd_prefix
                  \o <<"addr", "add",
                       Get(intf_infos, "ADDR") \o "/" \o Get(intf_infos, "SBITS"),
                       "dev", target>>,
                  intf_infos, ~use_ns /\ iface # Missing,
                  AddrAdd(target, name, Get(intf_infos, "ADDR")))>>
        \o (IF stacked
            THEN << Call(_ip_cmd_prefix \o <<"link", "set", "dev", _macvlan_name,
                                             "mtu", MtuStr, "up">>,
                         intf_infos, ~use_ns, LinkUp(_macvlan_name, name)),
                    Call(_ip_cmd_prefix \o <<"link", "set", "dev", _vlan_name,
                                             "mtu", MtuStr, "up">>,
                         intf_infos, ~use_ns, LinkUp(_vlan_name, name)) >>
            ELSE <<Call(_ip_cmd_prefix \o <<"link", "set", "dev", iface, "mtu", MtuStr, "up">>,
                        intf_infos, ~use_ns /\ iface # Missing, LinkUp(iface, name))>>)

\* mutant: the policy rule is installed before the default route
RoutingRuleFirst(s, net_namespace_info, intf_infos) ==
    LET _intf_to_use == IF IsBM(s) /\ Get(intf_infos, "VLTAG") # "0"
                        THEN Get(intf_infos, "IFACE") \o "v" \o Get(intf_infos, "VLTAG")
                        ELSE Get(intf_infos, "IFACE")
        _route_table_name == _compute_routing_table_name(s, intf_infos)
    IN  << Helper(<<"NetworkHelpers.add_route_table", _route_table_name>>,
                  intf_infos, TableAdd(_route_table_name)),
           Call(<<"NetworkHelpers.add_static_ip_rule", "from", Get(intf_infos, "ADDR"),
                  "lookup", _route_table_name>>, intf_infos, TRUE,
                RuleAdd(Get(intf_infos, "ADDR"), _route_table_name)),
           Call(<<"NetworkHelpers.add_static_ip_route", "default", "via",
                  Get(intf_infos, "VIRTRT"), "dev", _intf_to_use,
                  "table", _route_table_name>>, intf_infos, TRUE, NoEffect) >>

\* the steps of _auto_config_intf_routing, in order
_auto_config_intf_routing(s, net_namespace_info, intf_infos) ==
    LET _intf_to_use == IF IsBM(s) /\ Get(intf_infos, "VLTAG") # "0"
                        THEN Get(intf_infos, "IFACE") \o "v" \o Get(intf_infos, "VLTAG")
                        ELSE Get(intf_infos, "IFACE")
        _route_table_name == _compute_routing_table_name(s, intf_infos)
    IN  IF net_namespace_info.use
        THEN <<Call(<<"NetworkHelpers.add_static_ip_route", "default", "via",
                      Get(intf_infos, "VIRTRT"), "namespace", net_namespace_info.name>>,
                    intf_infos, TRUE, NoEffect)>>
             \o (IF net_namespace_info.start_sshd
                 THEN <<Call(<<IP, "netns", "exec", net_namespace_info.name, "/usr/sbin/sshd">>,
                             intf_infos, TRUE, NoEffect)>>
                 ELSE <<>>)
        ELSE << Helper(<<"NetworkHelpers.add_route_table", _route_table_name>>,
                       intf_infos, TableAdd(_route_table_name)),
                Call(<<"NetworkHelpers.add_static_ip_route", "default", "via",
                       Get(intf_infos, "VIRTRT"), "dev", _intf_to_use,
                       "table", _route_table_name>>, intf_infos, TRUE, NoEffect),
                Call(<<"NetworkHelpers.add_static_ip_rule", "from", Get(intf_infos, "ADDR"),
                       "lookup", _route_table_name>>, intf_infos, TRUE,
                     RuleAdd(Get(intf_infos, "ADDR"), _route_table_name)) >>

\* a step that raises without issuing a command
Raise(intf) == [argv |-> <<>>, intf |-> intf, fatal |-> TRUE, valid |-> FALSE,
                effect |-> NoEffect]

\* _auto_config_secondary_intf: list.extend is called with five arguments, which
\* raises TypeError before the first command of the first secondary address
_auto_config_secondary_intf(s, net_namespace_info, intf_infos) ==
    IF Truthy(Get(intf_infos, "SECONDARY_IPS")) THEN <<Raise(intf_infos)>> ELSE <<>>

\* mutant: NetworkManager is told to leave the MAC alone before the interface is
\* set up
ConfigureStepsNmFirst(s, ns_i, by_nic_index, _intf) ==
    <<Helper(<<"NetworkHelpers.remove_mac_from_nm", Get(_intf, "MAC")>>,
             _intf, NmUnmanage(Get(_intf, "MAC")))>>
    \o _auto_config_intf(s, ns_i, _intf)
    \o _auto_config_intf_routing(s, ns_i, _intf)

\* mutant: the record is configured as it is, without the name of its NIC index
ConfigureStepsNoFallback(s, ns_i, by_nic_index, _intf) ==
    _auto_config_intf(s, ns_i, _intf)
    \o <<Helper(<<"NetworkHelpers.remove_mac_from_nm", Get(_intf, "MAC")>>,
                _intf, NmUnmanage(Get(_intf, "MAC")))>>
    \o _auto_config_intf_routing(s, ns_i, _intf)

\* the body of the configure loop of auto_config for one queued record
ConfigureSteps(s, ns_i, by_nic_index, _intf) ==
    LET fallback == IsBM(s) /\ Get(_intf, "IFACE") = Missing
        known == Get(_intf, "NIC_I") \in DOMAIN by_nic_index
        _intf_to_use == IF fallback /\ known
                        THEN Put(Put(_intf, "IFACE", by_nic_index[Get(_intf, "NIC_I")]),
                                 "STATE", "up")
                        ELSE _intf
    IN  IF fallback /\ ~known
        THEN <<Raise(_intf)>>
        ELSE _auto_config_intf(s, ns_i, _intf_to_use)
             \o <<Helper(<<"NetworkHelpers.remove_mac_from_nm", Get(_intf, "MAC")>>,
                         _intf_to_use, NmUnmanage(Get(_intf, "MAC")))>>
             \o _auto_config_intf_routing(s, ns_i, _intf_to_use)
             \o (IF Has(_intf, "SECONDARY_IPS")
                 THEN _auto_config_secondary_intf(s, ns_i, _intf_to_use)
                 ELSE <<>>)

-----------------------------------------------------------------------------
(* The kernel and NetworkManager: what a command that succeeded does to the
   devices and to the host, and when a well-formed command can succeed *)

DropAddress(devs, dev, ns, addr) ==
    [p \in 1..Len(devs) |->
        IF devs[p].device = dev /\ devs[p].ns = ns
        THEN LET keep(a) == a # addr
             IN  [devs[p] EXCEPT !.addresses = SelectSeq(devs[p].addresses, keep)]
        ELSE devs[p]]

PutAddress(devs, dev, ns, addr) ==
    [p \in 1..Len(devs) |->
        IF devs[p].device = dev /\ devs[p].ns = ns
        THEN [devs[p] EXCEPT !.addresses = Append(devs[p].addresses, addr),
                             !.opstate = "up"]
        ELSE devs[p]]

DropLink(devs, dev) ==
    LET keep(d) == d.device # dev /\ d.link # dev IN SelectSeq(devs, keep)

\* the physical devices of a deleted namespace return to the default one without
\* their addresses, its virtual devices are destroyed
DropNamespace(devs, ns) ==
    LET keep(d) == d.ns # ns \/ d.subtype = ""
        kept == SelectSeq(devs, keep)
    IN  [p \in 1..Len(kept) |->
            IF kept[p].ns = ns
            THEN [kept[p] EXCEPT !.ns = "", !.addresses = <<>>, !.opstate = "down"]
            ELSE kept[p]]

SetUp(devs, dev, ns) ==
    [p \in 1..Len(devs) |->
        IF devs[p].device = dev /\ devs[p].ns = ns
        THEN [devs[p] EXCEPT !.opstate = "up"]
        ELSE devs[p]]

\* a device created in the default namespace, down and without address
NewLink(devs, e) ==
    Append(devs, [device |-> e.dev, link |-> e.link, vlanid |-> e.vlanid,
                  index |-> ToString(Len(devs) + 2), opstate |-> "down",
                  mac |-> e.mac, addresses |-> <<>>, is_vf |-> FALSE,
                  subtype |-> e.subtype, flags |-> {"UP"}, type |-> "ether", ns |-> ""])

\* a device moved to another namespace loses its addresses and goes down
MoveLink(devs, dev, ns) ==
    [p \in 1..Len(devs) |->
        IF devs[p].device = dev /\ devs[p].ns = ""
        THEN [devs[p] EXCEPT !.ns = ns, !.addresses = <<>>, !.opstate = "down"]
        ELSE devs[p]]

Effect(devs, c) ==
    LET e == c.effect
    IN  IF ~c.ok THEN devs
        ELSE CASE e.kind = "addr_del" -> DropAddress(devs, e.dev, e.ns, e.addr)
               [] e.kind = "addr_add" -> PutAddress(devs, e.dev, e.ns, e.addr)
               [] e.kind = "link_del" -> DropLink(devs, e.dev)
               [] e.kind = "netns_del" -> DropNamespace(devs, e.ns)
               [] e.kind = "link_up" -> SetUp(devs, e.dev, e.ns)
               [] e.kind = "link_add" -> NewLink(devs, e)
               [] e.kind = "link_netns" -> MoveLink(devs, e.dev, e.ns)
               [] OTHER -> devs

RECURSIVE Effects(_, _)
Effects(devs, issued) ==
    IF issued = <<>> THEN devs ELSE Effects(Effect(devs, Head(issued)), Tail(issued))

\* remove_ip_addr_rules removes the rules that select the address or the table
HostEffect(h, c) ==
    LET e == c.effect
    IN  IF ~c.ok THEN h
        ELSE CASE e.kind = "netns_add" -> [h EXCEPT !.netns = @ \cup {e.ns}]
               [] e.kind = "netns_del" -> [h EXCEPT !.netns = @ \ {e.ns}]
               [] e.kind = "table_add" -> [h EXCEPT !.tables = @ \cup {e.name}]
               [] e.kind = "table_del" -> [h EXCEPT !.tables = @ \ {e.name}]
               [] e.kind = "rule_add" ->
                      [h EXCEPT !.rules = @ \cup {[from |-> e.from, table |-> e.table]}]
               [] e.kind = "rules_del" ->
                      [h EXCEPT !.rules = {r \in @ : r.from # e.of /\ r.table # e.of}]
               [] e.kind = "nm_unmanage" -> [h EXCEPT !.unmanaged = @ \cup {e.mac}]
               [] e.kind = "nm_manage" -> [h EXCEPT !.unmanaged = @ \ {e.mac}]
               [] OTHER -> h

RECURSIVE HostEffects(_, _)
HostEffects(h, issued) ==
    IF issued = <<>> THEN h ELSE HostEffects(HostEffect(h, Head(issued)), Tail(issued))

\* the device dev of namespace ns exists
Exists(devs, dev, ns) == \E p \in 1..Len(devs) : devs[p].device = dev /\ devs[p].ns = ns

\* the kernel accepts the command: the device or namespace it names exists, what
\* it creates does not
Feasible(devs, h, e) ==
    CASE e.kind = "addr_del" ->
             \E p \in 1..Len(devs) : /\ devs[p].device = e.dev /\ devs[p].ns = e.ns
                                      /\ e.addr \in {devs[p].addresses[k] :
                                                       k \in 1..Len(devs[p].addresses)}
      [] e.kind = "addr_add" ->
             \E p \in 1..Len(devs) : /\ devs[p].device = e.dev /\ devs[p].ns = e.ns
                                      /\ e.addr \notin {devs[p].addresses[k] :
                                                          k \in 1..Len(devs[p].addresses)}
      [] e.kind = "link_del" -> Exists(devs, e.dev, "")
      [] e.kind = "link_up" -> Exists(devs, e.dev, e.ns)
      [] e.kind = "link_add" ->
             Exists(devs, e.link, "") /\ \A p \in 1..Len(devs) : devs[p].device # e.dev
      [] e.kind = "link_netns" -> Exists(devs, e.dev, "") /\ e.ns \in h.netns
      [] e.kind = "netns_add" -> e.ns \notin h.netns
      [] e.kind = "netns_del" -> e.ns \in h.netns
      [] OTHER -> TRUE

\* Run the steps of one interface after n commands were issued: the command at
\* position failAt of the operation returns non-zero, as does one that cannot
\* succeed (a malformed command line, or one the kernel refuses in the state the
\* commands before it left); a fatal step that fails raises and the steps after
\* it are not issued.
RECURSIVE RunSteps(_, _, _)
RunSteps(steps, failAt, issued) ==
    IF steps = <<>> THEN [issued |-> issued, raised |-> FALSE]
    ELSE LET st == Head(steps)
             ok == /\ st.valid
                   /\ Len(issued) + 1 # failAt
                   /\ Feasible(Effects(devices, issued), HostEffects(host, issued), st.effect)
             now == Append(issued, [argv |-> st.argv, intf |-> st.intf, ok |-> ok,
                                    effect |-> st.effect])
         IN  IF st.argv = <<>>
             THEN [issued |-> issued, raised |-> TRUE]
             ELSE IF ~ok /\ st.fatal
             THEN [issued |-> now, raised |-> TRUE]
             ELSE RunSteps(Tail(steps), failAt, now)

\* Run the plans of several interfaces in order. isolate: an exception raised for
\* one interface is caught and the next one is processed (try/except in the loop);
\* otherwise it ends the loop.
RECURSIVE RunPlans(_, _, _, _)
RunPlans(plans, failAt, issued, isolate) ==
    IF plans = <<>> THEN [issued |-> issued, raised |-> FALSE]
    ELSE LET r == RunSteps(Head(plans), failAt, issued)
         IN  IF r.raised /\ ~isolate
             THEN r
             ELSE RunPlans(Tail(plans), failAt, r.issued, isolate)

-----------------------------------------------------------------------------
(* The inputs: metadata, inventory and preferences *)

Shapes == {"VM.Standard2.1", "BM.Standard2.52"}

DevNames == <<"ens3", "ens4", "ens5", "ens6">>
DevIndex == <<"2", "3", "4", "5">>
VnicIds == <<"ocid1", "ocid2", "ocid3", "ocid4">>
VnicIps == <<"10.0.0.1", "10.0.0.2", "10.0.0.3", "10.0.0.4">>
MdMacs == {"M1", "m2"}
ExclItems == {DevNames[1], DevNames[2], VnicIds[1], VnicIds[2], VnicIps[1], VnicIps[2]}

\* the k-th VNIC of the metadata of an instance of shape s, of MAC address m
Vnic(k, s, m) ==
    LET vm == [macAddr |-> m, privateIp |-> VnicIps[k],
               subnetCidrBlock |-> <<"10.0.0.0", "24">>,
               virtualRouterIp |-> "10.0.0.254",
               vlanTag |-> IF IsBM(s) /\ k > 1 THEN "5" ELSE "0",
               vnicId |-> VnicIds[k]]
    IN  IF IsBM(s) THEN Put(vm, "nicIndex", "0") ELSE vm

VnicsAt(k, s) == {Vnic(k, s, m) : m \in MdMacs}

VnicLists(s) ==
    UNION {{l \in [1..n -> UNION {VnicsAt(k, s) : k \in 1..n}] :
                \A k \in 1..n : l[k] \in VnicsAt(k, s)} : n \in 1..MaxVnics}

\* a kind of device: what the inventory reports of it besides its name and index
Kind(mac, addresses, is_vf, subtype, flags, type, ns) ==
    [mac |-> mac, addresses |-> addresses, is_vf |-> is_vf, subtype |-> subtype,
     flags |-> flags, type |-> type, ns |-> ns]

Nic(mac, addresses, is_vf) == Kind(mac, addresses, is_vf, "", {"UP"}, "ether", "")

CorrelateKinds ==
    << Nic("M1", <<"10.0.0.1">>, FALSE),
       Nic("M1", <<>>, FALSE),
       Nic("M1", <<"10.0.0.1">>, TRUE),
       Nic("M1", <<>>, TRUE),
       Nic("M2", <<"10.0.0.2">>, FALSE),
       Nic("M2", <<"10.0.0.2", "10.0.0.9">>, FALSE),
       Nic("M2", <<"10.0.0.9">>, FALSE),
       Nic("M2", <<>>, FALSE),
       Nic("M2", <<"10.0.0.2">>, TRUE),
       Nic("M2", <<>>, TRUE),
       Kind("M2", <<>>, FALSE, "macvlan", {"UP"}, "ether", ""),
       Kind("M2", <<"10.0.0.2">>, FALSE, "vlan", {"UP"}, "ether", ""),
       Kind("M2", <<>>, FALSE, "vlan", {"UP"}, "ether", ""),
       Kind("M2", <<>>, FALSE, "", {"UP", "NO-CARRIER"}, "ether", ""),
       Kind("M2", <<"10.0.0.2">>, FALSE, "", {"UP", "LOOPBACK"}, "ether", ""),
       Kind("M2", <<"10.0.0.2">>, FALSE, "", {"UP"}, "infiniband", "") >>

\* the device of kind k at position p of the inventory: a NIC is named after its
\* position, a macvlan and the VLAN device on it after the first NIC and VLAN tag 5
DeviceOf(k, p) ==
    [device |-> CASE k.subtype = "macvlan" -> DevNames[1] \o ".5"
                  [] k.subtype = "vlan" -> DevNames[1] \o "v5"
                  [] OTHER -> DevNames[p],
     link |-> CASE k.subtype = "macvlan" -> DevNames[1]
                [] k.subtype = "vlan" -> DevNames[1] \o ".5"
                [] OTHER -> "",
     vlanid |-> IF k.subtype = "vlan" THEN "5" ELSE "",
     index |-> DevIndex[p],
     opstate |-> IF k.addresses = <<>> /\ k.subtype = "" THEN "down" ELSE "up",
     mac |-> k.mac, addresses |-> k.addresses, is_vf |-> k.is_vf, subtype |-> k.subtype,
     flags |-> k.flags, type |-> k.type, ns |-> k.ns]

DistinctNames(l) ==
    \A i, j \in 1..Len(l) : i # j => <<l[i].device, l[i].ns>> # <<l[j].device, l[j].ns>>

\* the inventories of n devices, their kinds taken in the order of kinds
DeviceListsOf(kinds, n) ==
    {l \in {[p \in 1..n |-> DeviceOf(kinds[c[p]], p)] :
             c \in {f \in [1..n -> 1..Len(kinds)] :
                       \A i, j \in 1..n : i < j => f[i] <= f[j]}} :
        DistinctNames(l)}

\* the inventories of at most MaxDevs devices
DeviceLists(kinds) == UNION {DeviceListsOf(kinds, n) : n \in 0..MaxDevs}

\* the exclusion lists of at most n items
ExcludeLists(n) ==
    UNION {{l \in [1..m -> ExclItems] : \A i, j \in 1..m : i # j => l[i] # l[j]} : m \in 0..n}

\* a file that does not exist: cache.load_cache reads it as (0, None)
NoFile == [exists |-> FALSE]

\* a file that holds content c
File(c) == [exists |-> TRUE, content |-> c]

\* Python's None, as the value of self.vnic_info
None == [none |-> TRUE]

NoOp == [op |-> "none", arg |-> <<>>, exclude |-> <<>>, raised |-> FALSE, rc |-> 0,
         msg |-> "", interfaces |-> <<>>]

NoPrev == [op |-> "other", clean |-> TRUE]

\* the host around an inventory: the namespaces its devices are in, no routing
\* table or rule of a secondary VNIC, every MAC managed by NetworkManager
HostOf(devs) ==
    [netns |-> {devs[p].ns : p \in 1..Len(devs)} \ {""},
     tables |-> {}, rules |-> {}, unmanaged |-> {}]

\* no configure pass began yet
NoBefore == [devices |-> <<>>, host |-> HostOf(<<>>), stage |-> "none",
             detached |-> FALSE]

-----------------------------------------------------------------------------
(* get_network_config on every metadata, inventory and exclusion list *)

\* inventories in which three devices have the MAC address of the second VNIC:
\* a NIC with the macvlan and the VLAN device, or three NICs
AmbiguousLists ==
    LET primary == DeviceOf(Nic("M1", <<"10.0.0.1">>, FALSE), 1)
    IN  { <<primary,
            DeviceOf(Nic("M2", <<>>, FALSE), 2),
            DeviceOf(Kind("M2", <<>>, FALSE, "macvlan", {"UP"}, "ether", ""), 3),
            DeviceOf(Kind("M2", <<"10.0.0.2">>, FALSE, "vlan", {"UP"}, "ether", ""), 4)>>,
          <<primary,
            DeviceOf(Nic("M2", <<"10.0.0.2">>, FALSE), 2),
            DeviceOf(Nic("M2", <<>>, FALSE), 3),
            DeviceOf(Nic("M2", <<>>, FALSE), 4)>> }

InitCorrelate ==
    /\ shape \in Shapes
    /\ vnics \in VnicLists(shape)
    /\ devices \in DeviceLists(CorrelateKinds) \cup AmbiguousLists
    /\ \E e \in ExcludeLists(1) : vnic_info = [exclude |-> e, sec_priv_ip |-> <<>>]
    /\ saved = vnic_info
    /\ host = HostOf(devices)
    /\ cmds = <<>>
    /\ last = NoOp
    /\ prev = NoPrev
    /\ before = NoBefore
    /\ net_exclude = NoFile

ShowNetworkConfig ==
    LET r == get_network_config(vnics, devices, vnic_info.exclude)
    IN  /\ last' = [NoOp EXCEPT !.op = "get_network_config", !.raised = r.raised,
                                 !.exclude = vnic_info.exclude,
                                 !.interfaces = r.interfaces]
        /\ cmds' = <<>>
        /\ UNCHANGED <<net_exclude, shape, vnics, devices, host, vnic_info, saved, prev, before>>

NextCorrelate == ShowNetworkConfig

SpecCorrelate == InitCorrelate /\ [][NextCorrelate]_vars

-----------------------------------------------------------------------------
(* The operations of VNICUtils on a host *)

HostKinds ==
    << Nic("M1", <<"10.0.0.1">>, FALSE),
       Nic("M2", <<"10.0.0.2">>, FALSE),
       Nic("M2", <<"10.0.0.2", "10.0.0.9">>, FALSE),
       Nic("M2", <<>>, FALSE),
       Kind("M2", <<"10.0.0.2">>, FALSE, "", {"UP"}, "ether", "ns1"),
       Kind("M2", <<>>, FALSE, "macvlan", {"UP"}, "ether", ""),
       Kind("M2", <<"10.0.0.2">>, FALSE, "vlan", {"UP"}, "ether", "") >>

\* the inventories of a host: the NIC of the primary VNIC, configured, and at most
\* MaxDevs devices besides it
HostDevices ==
    LET one(l) == Len(l) >= 1 /\ l[1].mac = "M1" /\ \A p \in 2..Len(l) : l[p].mac # "M1"
    IN  {l \in UNION {DeviceListsOf(HostKinds, n) : n \in 1..(MaxDevs + 1)} : one(l)}

\* the secondary-IP lists given to auto_config and auto_deconfig: none, or one
\* address of the second VNIC
SecIpArgs == {<<>>, <<<<"10.0.0.9", VnicIds[2]>>>>}

IpArgs == {VnicIps[1], VnicIps[2], "10.0.0.9"}

\* the items given to exclude and include: a device name, a VNIC id, an address
HostExclItems == {DevNames[2], VnicIds[2], VnicIps[1]}

\* the metadata of a host: the k-th VNIC has the k-th MAC address, the second in
\* lower case
HostMacs == <<"M1", "m2", "m3", "m4">>

HostVnics(s) ==
    {[k \in 1..n |-> Vnic(k, s, HostMacs[k])] : n \in 1..MaxVnics}

VnicArgs == {VnicIds[1], VnicIds[2]}

Init ==
    /\ shape \in Shapes
    /\ vnics \in HostVnics(shape)
    /\ devices \in HostDevices
    /\ vnic_info = [exclude |-> <<>>, sec_priv_ip |-> <<>>]
    /\ saved = vnic_info
    /\ host = HostOf(devices)
    /\ cmds = <<>>
    /\ last = NoOp
    /\ prev = NoPrev
    /\ before = NoBefore
    /\ net_exclude = NoFile

\* list.remove(x): the first item equal to x is removed
RECURSIVE Remove(_, _)
Remove(l, x) ==
    IF l = <<>> THEN <<>>
    ELSE IF Head(l) = x THEN Tail(l)
    ELSE <<Head(l)>> \o Remove(Tail(l), x)

IsPrimary(intf) == Has(intf, "IS_PRIMARY")

\* the operation that just ended becomes the previous one: what is kept of it is
\* whether it was an auto_config or its configure loop, and then whether none of
\* its commands failed
Shift ==
    prev' = IF last.op \in {"auto_config", "configure"}
            THEN [op |-> last.op, clean |-> \A k \in 1..Len(cmds) : cmds[k].ok]
            ELSE NoPrev

\* what is remembered of the last configure pass once operation op ended. The
\* stage is "deconfigured" right after the first auto_deconfig that follows the
\* pass; a pass that had nothing to configure is no new pass.
Pass(op) ==
    CASE op = "configure" ->
             [devices |-> devices, host |-> host, stage |-> "configured",
              detached |-> FALSE]
      [] before.stage = "none" -> before
      [] op = "auto_deconfig" /\ before.stage = "configured" ->
             [before EXCEPT !.stage = "deconfigured"]
      [] op = "detach" /\ before.stage = "configured" ->
             [before EXCEPT !.detached = TRUE]
      [] OTHER -> [before EXCEPT !.stage = "done"]

\* an operation that raised to its caller before it issued a command
Raised(op, arg, interfaces) ==
    /\ last' = [NoOp EXCEPT !.op = op, !.arg = arg, !.exclude = vnic_info.exclude,
                            !.raised = TRUE, !.rc = -1, !.interfaces = interfaces]
    /\ cmds' = <<>>
    /\ Shift
    /\ before' = Pass(op)
    /\ UNCHANGED <<net_exclude, shape, vnics, devices, host, vnic_info, saved>>

\* mutant: exclude(item, save=False)
ExcludeUnsaved(item) ==
    /\ Len(vnic_info.exclude) < MaxExcl \/ item \in Items(vnic_info.exclude)
    /\ vnic_info' = IF item \notin Items(vnic_info.exclude)
                    THEN [vnic_info EXCEPT !.exclude = Append(@, item)]
                    ELSE vnic_info
    /\ saved' = saved
    /\ last' = [NoOp EXCEPT !.op = "exclude", !.arg = <<item>>,
                            !.exclude = vnic_info.exclude]
    /\ cmds' = <<>>
    /\ Shift
    /\ before' = Pass("exclude")
    /\ UNCHANGED <<net_exclude, shape, vnics, devices, host>>

\* mutant: the item is appended whether the list holds it or not
ExcludeAppends(item, n) ==
    /\ Len(vnic_info.exclude) < n
    /\ vnic_info' = [vnic_info EXCEPT !.exclude = Append(@, item)]
    /\ saved' = vnic_info'
    /\ last' = [NoOp EXCEPT !.op = "exclude", !.arg = <<item>>,
                            !.exclude = vnic_info.exclude]
    /\ cmds' = <<>>
    /\ Shift
    /\ before' = Pass("exclude")
    /\ UNCHANGED <<net_exclude, shape, vnics, devices, host>>

\* exclude(item, save=True), the list growing to n items at most
ExcludeUpTo(item, n) ==
    /\ Len(vnic_info.exclude) < n \/ item \in Items(vnic_info.exclude)
    /\ vnic_info' = IF item \notin Items(vnic_info.exclude)
                    THEN [vnic_info EXCEPT !.exclude = Append(@, item)]
                    ELSE vnic_info
    /\ saved' = IF item \notin Items(vnic_info.exclude) THEN vnic_info' ELSE saved
    /\ last' = [NoOp EXCEPT !.op = "exclude", !.arg = <<item>>,
                            !.exclude = vnic_info.exclude]
    /\ cmds' = <<>>
    /\ Shift
    /\ before' = Pass("exclude")
    /\ UNCHANGED <<net_exclude, shape, vnics, devices, host>>

Exclude(item) == ExcludeUpTo(item, MaxExcl)

\* include(item, save=True)
Include(item) ==
    /\ vnic_info' = IF item \in Items(vnic_info.exclude)
                    THEN [vnic_info EXCEPT !.exclude = Remove(@, item)]
                    ELSE vnic_info
    /\ saved' = IF item \in Items(vnic_info.exclude) THEN vnic_info' ELSE saved
    /\ last' = [NoOp EXCEPT !.op = "include", !.arg = <<item>>,
                            !.exclude = vnic_info.exclude]
    /\ cmds' = <<>>
    /\ Shift
    /\ before' = Pass("include")
    /\ UNCHANGED <<net_exclude, shape, vnics, devices, host>>

\* the partition loop of auto_config reaches the test of sec_ip for this record
ReachesSecIp(exclude, _intf) == ~IsPrimary(_intf) /\ ~_is_intf_excluded(exclude, _intf)

\* sec_ip is no name of auto_config (its parameter is secondary_ips): the test
\* raises NameError for the first record that reaches it
PartitionRaises(exclude, _all_intf) ==
    \E k \in 1..Len(_all_intf) : ReachesSecIp(exclude, _all_intf[k])

\* the records the partition loop queues for tag t
Queued(exclude, _all_intf, t) ==
    LET q(_intf) == ReachesSecIp(exclude, _intf) /\ Get(_intf, "CONFSTATE") = t
    IN  SelectSeq(_all_intf, q)

RECURSIVE ByNicIndex(_, _)
ByNicIndex(_all_intf, m) ==
    IF _all_intf = <<>> THEN m
    ELSE LET i == Head(_all_intf)
         IN  ByNicIndex(Tail(_all_intf),
                        IF Get(i, "IFACE") # Missing
                        THEN Put(m, Get(i, "NIC_I"), Get(i, "IFACE"))
                        ELSE m)

\* what auto_config does once the view is computed
AutoConfigOn(r, secondary_ips) ==
    LET _all_intf == r.interfaces
        exclude == vnic_info.exclude
        ns_i == NamespaceInfo(vnic_info, _all_intf[Len(_all_intf)])
        by_nic_index == ByNicIndex(_all_intf, <<>>)
        to_configure == Queued(exclude, _all_intf, "ADD")
        to_deconfigure == Queued(exclude, _all_intf, "DELETE")
        plans == [k \in 1..Len(to_configure) |->
                     ConfigureSteps(shape, ns_i, by_nic_index, to_configure[k])]
                 \o [k \in 1..Len(to_deconfigure) |->
                     _auto_deconfig_intf(shape, to_deconfigure[k])]
    IN  IF r.raised \/ PartitionRaises(exclude, _all_intf)
        THEN Raised("auto_config", secondary_ips, _all_intf)
        ELSE \E failAt \in 0..MaxFail : \E run \in {RunPlans(plans, failAt, <<>>, TRUE)} :
             /\ failAt <= Len(run.issued)
             /\ cmds' = run.issued
             /\ devices' = Effects(devices, run.issued)
             /\ host' = HostEffects(host, run.issued)
             /\ last' = [NoOp EXCEPT !.op = "auto_config", !.arg = secondary_ips,
                                     !.exclude = exclude, !.interfaces = _all_intf]
             /\ Shift
             /\ before' = Pass("auto_config")
             /\ UNCHANGED <<net_exclude, shape, vnics, vnic_info, saved>>

\* auto_config(secondary_ips, quiet, show), the failAt-th command issued failing
AutoConfig ==
    \E r \in {get_network_config(vnics, devices, vnic_info.exclude)} :
        \E secondary_ips \in SecIpArgs : AutoConfigOn(r, secondary_ips)

\* the records auto_deconfig tears down when no secondary address is given
ToDeconfigure(exclude, _all_intf) ==
    LET q(intf) == /\ ~IsPrimary(intf)
                   /\ Get(intf, "CONFSTATE") # "ADD"
                   /\ ~_is_intf_excluded(exclude, intf)
    IN  SelectSeq(_all_intf, q)

\* the (ip, record) pairs auto_deconfig visits for its secondary addresses, in order
RECURSIVE SecondaryTargets(_, _)
SecondaryTargets(sec_ip, _all_intf) ==
    IF sec_ip = <<>> THEN <<>>
    ELSE LET vnic == Head(sec_ip)[2]
             of(intf) == Get(intf, "VNIC") = vnic
             hit == SelectSeq(_all_intf, of)
         IN  [k \in 1..Len(hit) |-> [ip |-> Head(sec_ip)[1], intf |-> hit[k]]]
             \o SecondaryTargets(Tail(sec_ip), _all_intf)

\* the plans of the secondary-address loop: it raises at the first primary target
RECURSIVE SecondaryPlans(_)
SecondaryPlans(targets) ==
    IF targets = <<>> THEN <<>>
    ELSE LET t == Head(targets)
         IN  IF IsPrimary(t.intf)
             THEN <<<<Raise(t.intf)>>>>
             ELSE <<_deconfig_secondary_addr(t.intf, Get(t.intf, "IFACE"), t.ip,
                                             Get(t.intf, "NS"))>>
                  \o SecondaryPlans(Tail(targets))

\* what auto_deconfig does once the view is computed; fails: the positions at
\* which a command may be made to fail (0: none is)
AutoDeconfigOn(r, sec_ip, fails) ==
    LET _all_intf == r.interfaces
        exclude == vnic_info.exclude
        all == ToDeconfigure(exclude, _all_intf)
        plans == IF sec_ip # <<>>
                 THEN SecondaryPlans(SecondaryTargets(sec_ip, _all_intf))
                 ELSE [k \in 1..Len(all) |-> _auto_deconfig_intf(shape, all[k])]
    IN  IF r.raised
        THEN Raised("auto_deconfig", sec_ip, _all_intf)
        ELSE \E failAt \in fails : \E run \in {RunPlans(plans, failAt, <<>>, FALSE)} :
             /\ failAt <= Len(run.issued)
             /\ cmds' = run.issued
             /\ devices' = Effects(devices, run.issued)
             /\ host' = HostEffects(host, run.issued)
             /\ last' = [NoOp EXCEPT !.op = "auto_deconfig", !.arg = sec_ip,
                                     !.exclude = exclude, !.raised = run.raised,
                                     !.rc = IF run.raised THEN -1 ELSE 0,
                                     !.interfaces = _all_intf]
             /\ Shift
             /\ before' = Pass("auto_deconfig")
             /\ UNCHANGED <<net_exclude, shape, vnics, vnic_info, saved>>

\* auto_deconfig(sec_ip, quiet, show), the failAt-th command issued failing
AutoDeconfig ==
    \E r \in {get_network_config(vnics, devices, vnic_info.exclude)} :
        \E sec_ip \in SecIpArgs : AutoDeconfigOn(r, sec_ip, 0..MaxFail)

\* mutant: the record is looked for by its VNIC only
SoughtByVnic(_interface, ipaddr, vnic_id) ==
    Has(_interface, "VNIC") /\ _interface["VNIC"] = vnic_id

\* the record del_private_ip looks for: dict.get reads an absent key as None
Sought(_interface, ipaddr, vnic_id) ==
    /\ Has(_interface, "VNIC") /\ _interface["VNIC"] = vnic_id
    /\ Has(_interface, "ADDR") /\ _interface["ADDR"] = ipaddr

\* what del_private_ip does once the view is computed
DelPrivateIpOn(r, ipaddr, vnic_id) ==
    LET _interfaces == r.interfaces
        is(i) == Sought(i, ipaddr, vnic_id)
        found == SelectSeq(_interfaces, is)
        done == [NoOp EXCEPT !.op = "del_private_ip", !.arg = <<ipaddr, vnic_id>>,
                             !.exclude = vnic_info.exclude, !.interfaces = _interfaces]
    IN  IF r.raised
        THEN Raised("del_private_ip", <<ipaddr, vnic_id>>, _interfaces)
        ELSE IF found = <<>>
        THEN /\ last' = [done EXCEPT !.msg = "IP is not configured."]
             /\ cmds' = <<>>
             /\ Shift
             /\ before' = Pass("del_private_ip")
             /\ UNCHANGED <<net_exclude, shape, vnics, devices, host, vnic_info, saved>>
        ELSE \E failAt \in 0..MaxFail :
             \E run \in {RunSteps(DelPrivateIpSteps(found[1]), failAt, <<>>)} :
             /\ failAt <= Len(run.issued)
             /\ cmds' = run.issued
             /\ devices' = Effects(devices, run.issued)
             /\ host' = HostEffects(host, run.issued)
             /\ vnic_info' = [vnic_info EXCEPT
                                 !.sec_priv_ip = Remove(@, <<ipaddr, vnic_id>>),
                                 !.exclude = Remove(@, ipaddr)]
             /\ saved' = vnic_info'
             /\ last' = done
             /\ Shift
             /\ before' = Pass("del_private_ip")
             /\ UNCHANGED <<net_exclude, shape, vnics>>

\* del_private_ip(ipaddr, vnic_id), the failAt-th command issued failing
DelPrivateIp ==
    \E r \in {get_network_config(vnics, devices, vnic_info.exclude)} :
        \E ipaddr \in IpArgs, vnic_id \in VnicArgs : DelPrivateIpOn(r, ipaddr, vnic_id)

Next ==
    \/ \E item \in HostExclItems : Exclude(item)
    \/ \E item \in HostExclItems : Include(item)
    \/ AutoConfig
    \/ AutoDeconfig
    \/ DelPrivateIp

Spec == Init /\ [][Next]_vars

-----------------------------------------------------------------------------
(* The preferences: add_private_ip, del_private_ip, exclude and include on a
   host whose second NIC is configured *)

\* the inventories: the NIC of the primary VNIC, alone or with the NIC of the
\* second VNIC, which holds its address, or its address and a secondary one, in
\* the default namespace or in namespace ns1
CacheDevices ==
    {<<DeviceOf(Nic("M1", <<"10.0.0.1">>, FALSE), 1)>>}
    \cup {<<DeviceOf(Nic("M1", <<"10.0.0.1">>, FALSE), 1), DeviceOf(k, 2)>> :
             k \in { Nic("M2", <<"10.0.0.2">>, FALSE),
                     Nic("M2", <<"10.0.0.2", "10.0.0.9">>, FALSE),
                     Kind("M2", <<"10.0.0.2", "10.0.0.9">>, FALSE, "", {"UP"}, "ether",
                          "ns1") }}

\* the (address, VNIC) pairs given to add_private_ip
SecIpPairs == {<<"10.0.0.9", VnicIds[2]>>, <<"10.0.0.8", VnicIds[2]>>}

InitCache ==
    /\ shape \in Shapes
    /\ vnics \in HostVnics(shape)
    /\ devices \in CacheDevices
    /\ vnic_info = [exclude |-> <<>>, sec_priv_ip |-> <<>>]
    /\ saved = vnic_info
    /\ host = HostOf(devices)
    /\ cmds = <<>>
    /\ last = NoOp
    /\ prev = NoPrev
    /\ before = NoBefore
    /\ net_exclude = NoFile

\* add_private_ip(ipaddr, vnic_id)
AddPrivateIp(ipaddr, vnic_id) ==
    /\ Len(vnic_info.sec_priv_ip) < MaxSecIps
       \/ <<ipaddr, vnic_id>> \in Items(vnic_info.sec_priv_ip)
    /\ vnic_info' = IF <<ipaddr, vnic_id>> \notin Items(vnic_info.sec_priv_ip)
                    THEN [vnic_info EXCEPT !.sec_priv_ip = Append(@, <<ipaddr, vnic_id>>)]
                    ELSE vnic_info
    /\ saved' = vnic_info'
    /\ last' = [NoOp EXCEPT !.op = "add_private_ip", !.arg = <<ipaddr, vnic_id>>,
                            !.exclude = vnic_info.exclude]
    /\ cmds' = <<>>
    /\ Shift
    /\ before' = Pass("add_private_ip")
    /\ UNCHANGED <<net_exclude, shape, vnics, devices, host>>

NextCache ==
    \/ \E p \in SecIpPairs : AddPrivateIp(p[1], p[2])
    \/ DelPrivateIp
    \/ \E item \in HostExclItems : Exclude(item)
    \/ \E item \in HostExclItems : Include(item)

SpecCache == InitCache /\ [][NextCache]_vars

-----------------------------------------------------------------------------
(* The executors: the configure loop of auto_config run on its own, then
   auto_deconfig, on a host whose secondary VNIC is not configured yet and where
   a command fails only when it cannot succeed *)

ExecShapes == Shapes \cup {"BM.GPU3.8", "VM.Standard.E2.1"}

\* the inventories: the NIC of the primary VNIC, configured, alone (a bare-metal
\* host, or a VM whose second NIC is not there yet) or with the NIC of the second
\* VNIC, without address
ExecDevices ==
    { <<DeviceOf(Nic("M1", <<"10.0.0.1">>, FALSE), 1)>>,
      <<DeviceOf(Nic("M1", <<"10.0.0.1">>, FALSE), 1),
        DeviceOf(Nic("M2", <<>>, FALSE), 2)>> }

\* the preferences: no namespace, a namespace named after the interface, or a
\* named one, with or without sshd in it
ExecVnicInfos ==
    LET plain == [exclude |-> <<>>, sec_priv_ip |-> <<>>]
    IN  {plain}
        \cup {Put(plain, "ns", n) : n \in {"", "ns1"}}
        \cup {Put(Put(plain, "ns", n), "sshd", TRUE) : n \in {"", "ns1"}}

InitExecutors ==
    /\ shape \in ExecShapes
    /\ vnics \in HostVnics(shape)
    /\ devices \in ExecDevices
    /\ vnic_info \in ExecVnicInfos
    /\ saved = vnic_info
    /\ host = HostOf(devices)
    /\ cmds = <<>>
    /\ last = NoOp
    /\ prev = NoPrev
    /\ before = NoBefore
    /\ net_exclude = NoFile

\* steps 2 and 3 of auto_config (the configure loop, then the deconfigure loop)
\* on the records step 1 queues. auto_config itself raises before it gets here
\* whenever a record is queued (see PartitionRaises); the loops are run here to
\* examine the executors they call. fails: the positions at which a command may
\* be made to fail (0: none is)
ConfigureOn(r, fails) ==
    LET _all_intf == r.interfaces
        exclude == vnic_info.exclude
        ns_i == NamespaceInfo(vnic_info, _all_intf[Len(_all_intf)])
        by_nic_index == ByNicIndex(_all_intf, <<>>)
        to_configure == Queued(exclude, _all_intf, "ADD")
        to_deconfigure == Queued(exclude, _all_intf, "DELETE")
        plans == [k \in 1..Len(to_configure) |->
                     ConfigureSteps(shape, ns_i, by_nic_index, to_configure[k])]
                 \o [k \in 1..Len(to_deconfigure) |->
                     _auto_deconfig_intf(shape, to_deconfigure[k])]
    IN  IF r.raised
        THEN Raised("configure", <<>>, _all_intf)
        ELSE \E failAt \in fails : \E run \in {RunPlans(plans, failAt, <<>>, TRUE)} :
             /\ failAt <= Len(run.issued)
             /\ cmds' = run.issued
             /\ devices' = Effects(devices, run.issued)
             /\ host' = HostEffects(host, run.issued)
             /\ last' = [NoOp EXCEPT !.op = "configure", !.exclude = exclude,
                                     !.interfaces = _all_intf]
             /\ Shift
             /\ before' = CASE run.issued # <<>> -> Pass("configure")
                            [] before.stage = "configured" -> before
                            [] OTHER -> Pass("nothing")
             /\ UNCHANGED <<net_exclude, shape, vnics, vnic_info, saved>>

Configure ==
    \E r \in {get_network_config(vnics, devices, vnic_info.exclude)} : ConfigureOn(r, {0})

\* the last VNIC is detached from the instance: the metadata no longer lists it,
\* its devices are still in the inventory
Detach ==
    /\ Len(vnics) > 1
    /\ vnics' = SubSeq(vnics, 1, Len(vnics) - 1)
    /\ last' = [NoOp EXCEPT !.op = "detach", !.exclude = vnic_info.exclude]
    /\ cmds' = <<>>
    /\ Shift
    /\ before' = Pass("detach")
    /\ UNCHANGED <<net_exclude, shape, devices, host, vnic_info, saved>>

\* auto_deconfig(sec_ip, quiet, show)
Deconfigure ==
    \E r \in {get_network_config(vnics, devices, vnic_info.exclude)} :
        \E sec_ip \in SecIpArgs : AutoDeconfigOn(r, sec_ip, {0})

NextExecutors ==
    \/ Configure
    \/ Deconfigure
    \/ Detach

SpecExecutors == InitExecutors /\ [][NextExecutors]_vars

-----------------------------------------------------------------------------
(* The preferences file: get_vnic_info on a fresh VNICUtils, with the vnic_info
   file and the obsolete net_exclude file present or not, then the operations
   that change the preferences. Reading and writing the files succeed. *)

\* mutant: the migrated preferences are not written to the vnic_info file
NewVnicInfoUnwritten(obsolete, p_ips) ==
    LET fresh == [exclude |-> <<>>, sec_priv_ip |-> <<>>]
        migrated == IF obsolete.exists THEN [fresh EXCEPT !.exclude = obsolete.content]
                    ELSE fresh
        queried == IF p_ips # None THEN [migrated EXCEPT !.sec_priv_ip = p_ips.ips]
                   ELSE migrated
    IN  [vnic_info |-> queried,
         file |-> IF p_ips # None THEN queried ELSE NoFile,
         net_exclude |-> NoFile]

\* __new_vnic_info: the preferences it returns, the vnic_info file and the
\* net_exclude file it leaves; obsolete: the net_exclude file it finds; p_ips:
\* what OCISession().this_instance().all_private_ips(refresh=True) gives, as
\* [address, VNIC id] pairs, None when no session can be made
__new_vnic_info(obsolete, p_ips) ==
    LET fresh == [exclude |-> <<>>, sec_priv_ip |-> <<>>]
        migrated == IF obsolete.exists THEN [fresh EXCEPT !.exclude = obsolete.content]
                    ELSE fresh
        queried == IF p_ips # None THEN [migrated EXCEPT !.sec_priv_ip = p_ips.ips]
                   ELSE migrated
    IN  [vnic_info |-> queried,
         file |-> IF p_ips # None THEN queried
                  ELSE IF obsolete.exists THEN migrated
                  ELSE NoFile,
         net_exclude |-> NoFile]

\* get_vnic_info(), the API session giving p_ips if the file is missing
GetVnicInfo(p_ips) ==
    /\ IF saved # NoFile
       THEN /\ vnic_info' = saved
            /\ UNCHANGED <<saved, net_exclude>>
       ELSE \E new \in {__new_vnic_info(net_exclude, p_ips)} :
            /\ vnic_info' = new.vnic_info
            /\ saved' = new.file
            /\ net_exclude' = new.net_exclude
    /\ last' = [NoOp EXCEPT !.op = "get_vnic_info",
                            !.arg = <<saved, net_exclude>>,
                            !.exclude = vnic_info'.exclude]
    /\ cmds' = <<>>
    /\ Shift
    /\ before' = Pass("get_vnic_info")
    /\ UNCHANGED <<shape, vnics, devices, host>>

\* a preference set and saved; before get_vnic_info, subscripting None raises
\* TypeError
SetPreference(op, key, val) ==
    IF vnic_info = None
    THEN /\ last' = [NoOp EXCEPT !.op = op, !.arg = <<val>>, !.raised = TRUE, !.rc = -1]
         /\ cmds' = <<>>
         /\ Shift
         /\ before' = Pass(op)
         /\ UNCHANGED <<net_exclude, shape, vnics, devices, host, vnic_info, saved>>
    ELSE /\ vnic_info' = Put(vnic_info, key, val)
         /\ saved' = vnic_info'
         /\ last' = [NoOp EXCEPT !.op = op, !.arg = <<val>>, !.exclude = vnic_info.exclude]
         /\ cmds' = <<>>
         /\ Shift
         /\ before' = Pass(op)
         /\ UNCHANGED <<net_exclude, shape, vnics, devices, host>>

\* set_namespace(ns)
SetNamespace(ns) == SetPreference("set_namespace", "ns", ns)

\* set_sshd(val)
SetSshd(val) == SetPreference("set_sshd", "sshd", val)

\* a fresh VNICUtils; the vnic_info file: none, or preferences saved earlier; the
\* net_exclude file: none, or a list of at most MaxExcl items
InitPrefs ==
    /\ shape = "VM.Standard2.1"
    /\ vnics = <<Vnic(1, shape, HostMacs[1])>>
    /\ devices = <<DeviceOf(Nic("M1", <<"10.0.0.1">>, FALSE), 1)>>
    /\ vnic_info = None
    /\ saved \in {NoFile, [exclude |-> <<>>, sec_priv_ip |-> <<>>],
                  [exclude |-> <<DevNames[2]>>, sec_priv_ip |-> <<>>, ns |-> "ns1"]}
    /\ net_exclude \in {NoFile} \cup {File(l) : l \in ExcludeLists(MaxExcl)}
    /\ host = HostOf(devices)
    /\ cmds = <<>>
    /\ last = NoOp
    /\ prev = NoPrev
    /\ before = NoBefore

NextPrefs ==
    \/ \E p_ips \in {None, [ips |-> <<>>], [ips |-> <<<<"10.0.0.9", VnicIds[2]>>>>]} :
           GetVnicInfo(p_ips)
    \/ \E ns \in {"", "ns1"} : SetNamespace(ns)
    \/ \E val \in BOOLEAN : SetSshd(val)
    \/ \E item \in HostExclItems : vnic_info # None /\ Exclude(item)
    \/ \E item \in HostExclItems : vnic_info # None /\ Include(item)

SpecPrefs == InitPrefs /\ [][NextPrefs]_vars

-----------------------------------------------------------------------------
(* The lists of the preferences: exclude, include, add_private_ip and
   delete_all_private_ips on an exclusion list of up to MaxExcl + 2 items and
   up to MaxSecIps secondary addresses *)

\* the items excluded and included: a device name and the secondary addresses
ListItems == {DevNames[2], "10.0.0.9", "10.0.0.8"}

\* the (address, VNIC) pairs given to add_private_ip: two addresses of the second
\* VNIC, one of them also on the third
ListPairs == SecIpPairs \cup {<<"10.0.0.9", VnicIds[3]>>}

\* include(privip[0], save=False) for each entry, in order
RECURSIVE IncludeEach(_, _)
IncludeEach(exclude, entries) ==
    IF entries = <<>> THEN exclude
    ELSE IncludeEach(IF Head(entries)[1] \in Items(exclude)
                     THEN Remove(exclude, Head(entries)[1])
                     ELSE exclude,
                     Tail(entries))

\* sec_priv_ip.remove(pi) for each entry, in order
RECURSIVE RemoveEach(_, _)
RemoveEach(l, entries) ==
    IF entries = <<>> THEN l ELSE RemoveEach(Remove(l, Head(entries)), Tail(entries))

\* mutant: the addresses of the entries removed stay excluded
DeleteAllKeepsExcluded(vnic_id) ==
    LET of_vnic(privip) == privip[2] = vnic_id
        remove_privip == SelectSeq(vnic_info.sec_priv_ip, of_vnic)
    IN  /\ vnic_info' = [vnic_info EXCEPT
                             !.sec_priv_ip = RemoveEach(@, remove_privip)]
        /\ saved' = vnic_info'
        /\ last' = [NoOp EXCEPT !.op = "delete_all_private_ips", !.arg = <<vnic_id>>,
                                !.exclude = vnic_info.exclude]
        /\ cmds' = <<>>
        /\ Shift
        /\ before' = Pass("delete_all_private_ips")
        /\ UNCHANGED <<net_exclude, shape, vnics, devices, host>>

\* delete_all_private_ips(vnic_id)
DeleteAllPrivateIps(vnic_id) ==
    LET of_vnic(privip) == privip[2] = vnic_id
        remove_privip == SelectSeq(vnic_info.sec_priv_ip, of_vnic)
    IN  /\ vnic_info' = [vnic_info EXCEPT
                             !.exclude = IncludeEach(@, remove_privip),
                             !.sec_priv_ip = RemoveEach(@, remove_privip)]
        /\ saved' = vnic_info'
        /\ last' = [NoOp EXCEPT !.op = "delete_all_private_ips", !.arg = <<vnic_id>>,
                                !.exclude = vnic_info.exclude]
        /\ cmds' = <<>>
        /\ Shift
        /\ before' = Pass("delete_all_private_ips")
        /\ UNCHANGED <<net_exclude, shape, vnics, devices, host>>

InitLists ==
    /\ shape = "VM.Standard2.1"
    /\ vnics = <<Vnic(1, shape, HostMacs[1]), Vnic(2, shape, HostMacs[2])>>
    /\ devices = <<DeviceOf(Nic("M1", <<"10.0.0.1">>, FALSE), 1)>>
    /\ vnic_info = [exclude |-> <<>>, sec_priv_ip |-> <<>>]
    /\ saved = vnic_info
    /\ host = HostOf(devices)
    /\ cmds = <<>>
    /\ last = NoOp
    /\ prev = NoPrev
    /\ before = NoBefore
    /\ net_exclude = NoFile

NextLists ==
    \/ \E item \in ListItems : ExcludeUpTo(item, MaxExcl + 2)
    \/ \E item \in ListItems : Include(item)
    \/ \E p \in ListPairs : AddPrivateIp(p[1], p[2])
    \/ \E vnic_id \in {VnicIds[2], VnicIds[3]} : DeleteAllPrivateIps(vnic_id)

SpecLists == InitLists /\ [][NextLists]_vars

-----------------------------------------------------------------------------
(* sudo_utils.call on its own: a command line of up to MaxArgs strings and what
   subprocess.check_call does with the prepared command line are drawn, then
   call is applied to them *)

SUDO_CMD == "/bin/sudo"

\* the strings of the command lines
ArgStrings == {SUDO_CMD, IP, "/bin/rm", "-f"}

\* the command lines: lists of at most MaxArgs strings, the empty one too
CmdLines == UNION {[1..n -> ArgStrings] : n \in 0..MaxArgs}

\* the return codes of a command that failed: an exit status, or minus the number
\* of the signal that killed it
RetCodes == {1, 2, 255, -9}

\* what subprocess.check_call does: it returns, raises CalledProcessError with
\* the return code of the command, or raises OSError
Outcomes ==
    {[kind |-> "returns", returncode |-> 0], [kind |-> "OSError", returncode |-> 0]}
    \cup {[kind |-> "CalledProcessError", returncode |-> n] : n \in RetCodes}

\* mutant: sudo is prepended whatever the command line begins with
PrepareAlways(cmd) ==
    IF Len(cmd) > 0 THEN [raised |-> FALSE, cmd |-> <<SUDO_CMD>> \o cmd]
    ELSE [raised |-> TRUE, cmd |-> <<>>]

\* _prepare_command(cmd); raised: the assertion failed
_prepare_command(cmd) ==
    IF Len(cmd) > 0
    THEN [raised |-> FALSE, cmd |-> IF cmd[1] # SUDO_CMD THEN <<SUDO_CMD>> \o cmd ELSE cmd]
    ELSE [raised |-> TRUE, cmd |-> <<>>]

\* call(cmd) when subprocess.check_call does outcome: the command lines it ran,
\* what it returns, whether it raised
call(cmd, outcome) ==
    LET _c == _prepare_command(cmd)
    IN  IF _c.raised THEN [ran |-> <<>>, rc |-> -1, raised |-> TRUE]
        ELSE [ran |-> <<_c.cmd>>,
              rc |-> CASE outcome.kind = "OSError" -> 404
                       [] outcome.kind = "CalledProcessError" -> outcome.returncode
                       [] OTHER -> 0,
              raised |-> FALSE]

InitSudo ==
    /\ shape = "VM.Standard2.1"
    /\ vnics = <<Vnic(1, shape, HostMacs[1])>>
    /\ devices = <<DeviceOf(Nic("M1", <<"10.0.0.1">>, FALSE), 1)>>
    /\ vnic_info = [exclude |-> <<>>, sec_priv_ip |-> <<>>]
    /\ saved = vnic_info
    /\ host = HostOf(devices)
    /\ cmds = <<>>
    /\ \E cmd \in CmdLines : \E outcome \in Outcomes :
           last = [NoOp EXCEPT !.arg = <<cmd, outcome>>]
    /\ prev = NoPrev
    /\ before = NoBefore
    /\ net_exclude = NoFile

\* sudo_utils.call(cmd) on the command line and with the outcome drawn
SudoCall ==
    /\ last.op = "none"
    /\ \E r \in {call(last.arg[1], last.arg[2])} :
           /\ last' = [last EXCEPT !.op = "call", !.raised = r.raised, !.rc = r.rc]
           /\ cmds' = [k \in 1..Len(r.ran) |->
                          [argv |-> r.ran[k], intf |-> <<>>,
                           ok |-> last.arg[2].kind = "returns", effect |-> NoEffect]]
    /\ UNCHANGED <<net_exclude, shape, vnics, devices, host, vnic_info, saved, prev, before>>

NextSudo == SudoCall

SpecSudo == InitSudo /\ [][NextSudo]_vars

-----------------------------------------------------------------------------
(* Setup under failures: the namespace and sshd preferences are set and the
   configure loop of auto_config runs on a host with up to MaxVnics + 1 VNICs.
   Any one command of the first pass may fail; in the passes after it a command
   fails only when it cannot succeed. *)

\* the positions at which a command may be made to fail, at most n: any in the
\* first operation that issues commands, none (0) after it
SetupFail(n) ==
    IF last.op \in {"none", "set_namespace", "set_sshd", "detach"} THEN 0..n ELSE {0}

\* the inventories: the NIC of the primary VNIC, configured, alone or with the
\* NICs of the second and third VNIC, unconfigured, or with the NIC of the second
\* VNIC, configured, in the default namespace or in namespace ns1
SetupDevices ==
    LET primary == DeviceOf(Nic("M1", <<"10.0.0.1">>, FALSE), 1)
    IN  { <<primary>>,
          <<primary, DeviceOf(Nic("M2", <<>>, FALSE), 2)>>,
          <<primary, DeviceOf(Nic("M2", <<>>, FALSE), 2), DeviceOf(Nic("M3", <<>>, FALSE), 3)>>,
          <<primary, DeviceOf(Nic("M2", <<"10.0.0.2">>, FALSE), 2)>>,
          <<primary, DeviceOf(Kind("M2", <<"10.0.0.2">>, FALSE, "", {"UP"}, "ether", "ns1"), 2)>> }

\* the VNICs of a bare-metal host whose second VNIC is on the second physical
\* NIC (NIC index 1), on which no VNIC without VLAN tag is
SecondNicVnics(s) ==
    << Vnic(1, s, HostMacs[1]),
       Put(Vnic(2, s, HostMacs[2]), "nicIndex", "1"),
       Vnic(3, s, HostMacs[3]) >>

InitSetup ==
    /\ shape \in Shapes
    /\ vnics \in {[k \in 1..n |-> Vnic(k, shape, HostMacs[k])] : n \in 2..(MaxVnics + 1)}
                \cup (IF IsBM(shape) THEN {SecondNicVnics(shape)} ELSE {})
    /\ devices \in SetupDevices
    /\ vnic_info = [exclude |-> <<>>, sec_priv_ip |-> <<>>]
    /\ saved = vnic_info
    /\ host = HostOf(devices)
    /\ cmds = <<>>
    /\ last = NoOp
    /\ prev = NoPrev
    /\ before = NoBefore
    /\ net_exclude = NoFile

\* steps 2 and 3 of auto_config, the failAt-th command issued failing
ConfigureFailing ==
    \E r \in {get_network_config(vnics, devices, vnic_info.exclude)} :
        ConfigureOn(r, SetupFail(2 * MaxFail + 1))

NextSetup ==
    \/ \E ns \in {"", "ns1"} : SetNamespace(ns)
    \/ \E val \in BOOLEAN : SetSshd(val)
    \/ ConfigureFailing

SpecSetup == InitSetup /\ [][NextSetup]_vars

-----------------------------------------------------------------------------
(* Routing on its own: the namespace and sshd preferences are set and
   _auto_config_intf_routing is applied to the record of the second VNIC, any
   one command of the first call failing *)

\* _auto_config_intf_routing(ns_i, intf_infos) for the record of a secondary VNIC,
\* with the namespace information auto_config computes
Routing ==
    \E r \in {get_network_config(vnics, devices, vnic_info.exclude)} :
        /\ ~r.raised
        /\ \E k \in 2..Len(vnics) : \E failAt \in SetupFail(MaxFail) :
           \E run \in {RunSteps(_auto_config_intf_routing(
                                    shape,
                                    NamespaceInfo(vnic_info, r.interfaces[Len(r.interfaces)]),
                                    r.interfaces[k]),
                                failAt, <<>>)} :
               /\ failAt <= Len(run.issued)
               /\ cmds' = run.issued
               /\ host' = HostEffects(host, run.issued)
               /\ last' = [NoOp EXCEPT !.op = "routing", !.arg = <<vnics[k].vnicId>>,
                                       !.exclude = vnic_info.exclude,
                                       !.raised = run.raised,
                                       !.interfaces = <<r.interfaces[k]>>]
               /\ Shift
               /\ before' = [devices |-> devices, host |-> host, stage |-> "routing",
                              detached |-> FALSE]
               /\ UNCHANGED <<net_exclude, shape, vnics, devices, vnic_info, saved>>

NextRouting ==
    \/ \E ns \in {"", "ns1"} : SetNamespace(ns)
    \/ \E val \in BOOLEAN : SetSshd(val)
    \/ Routing

SpecRouting == InitExecutors /\ [][NextRouting]_vars

-----------------------------------------------------------------------------
(* Teardown under failures: auto_deconfig on a host whose second NIC is
   configured, its VNIC attached or detached, any one command of the first call
   failing *)

\* the inventories: the NIC of the primary VNIC, configured, with the NIC of the
\* second VNIC configured in the default namespace (with a secondary address or
\* not) or in namespace ns1 or left without address in ns1, or with the macvlan
\* and the VLAN device of the second VNIC
InitTeardown ==
    /\ shape \in Shapes
    /\ vnics \in HostVnics(shape)
    /\ devices \in
         LET primary == DeviceOf(Nic("M1", <<"10.0.0.1">>, FALSE), 1)
         IN  { <<primary, DeviceOf(Nic("M2", <<"10.0.0.2">>, FALSE), 2)>>,
               <<primary, DeviceOf(Nic("M2", <<"10.0.0.2", "10.0.0.9">>, FALSE), 2)>>,
               <<primary,
                 DeviceOf(Kind("M2", <<"10.0.0.2">>, FALSE, "", {"UP"}, "ether", "ns1"), 2)>>,
               <<primary, DeviceOf(Kind("M2", <<>>, FALSE, "", {"UP"}, "ether", "ns1"), 2)>>,
               <<primary,
                 DeviceOf(Kind("M2", <<>>, FALSE, "macvlan", {"UP"}, "ether", ""), 2),
                 DeviceOf(Kind("M2", <<"10.0.0.2">>, FALSE, "vlan", {"UP"}, "ether", ""), 3)>> }
    /\ vnic_info = [exclude |-> <<>>, sec_priv_ip |-> <<>>]
    /\ saved = vnic_info
    /\ host = HostOf(devices)
    /\ cmds = <<>>
    /\ last = NoOp
    /\ prev = NoPrev
    /\ before = NoBefore
    /\ net_exclude = NoFile

\* auto_deconfig([], quiet, show), the failAt-th command issued failing
Teardown ==
    \E r \in {get_network_config(vnics, devices, vnic_info.exclude)} :
        AutoDeconfigOn(r, <<>>, SetupFail(MaxFail))

NextTeardown ==
    \/ Teardown
    \/ Detach

SpecTeardown == InitTeardown /\ [][NextTeardown]_vars

-----------------------------------------------------------------------------
(* Properties of the list get_network_config returns *)

Shown == last.op = "get_network_config" /\ ~last.raised

View == last.interfaces

Tag(r) == Get(r, "CONFSTATE")

RetainedDevices ==
    {devices[p] : p \in {q \in 1..Len(devices) :
        /\ "NO-CARRIER" \notin devices[q].flags
        /\ "LOOPBACK" \notin devices[q].flags
        /\ devices[q].type = "ether"}}

MetadataMacs == {Upper(vnics[k].macAddr) : k \in 1..Len(vnics)}

\* an item of the exclusion list names the record's device, VNIC or address
Matched(r) ==
    \E x \in Items(vnic_info.exclude) :
        \/ Has(r, "IFACE") /\ r["IFACE"] = x
        \/ Has(r, "VNIC") /\ r["VNIC"] = x
        \/ Has(r, "ADDR") /\ r["ADDR"] = x

\* the records of the view built from device d of the inventory
BuiltFrom(d) == {k \in 1..Len(View) : Get(View[k], "IND") = d.index}

\* C5: every MAC of the metadata or of a retained device is in exactly one record
\* of the returned list
CorrelationTotality ==
    Shown =>
        \A m \in MetadataMacs \cup {d.mac : d \in RetainedDevices} :
            Cardinality({k \in 1..Len(View) : Get(View[k], "MAC") = m}) = 1

\* C6: every returned record whose device name, VNIC id or address is in the
\* exclusion list is tagged EXCL
ExclusionOverride ==
    Shown => \A k \in 1..Len(View) : Matched(View[k]) => Tag(View[k]) = "EXCL"

\* C6 witness: a device no VNIC claims, which correlation tags DELETE, is excluded
\* by its address and ends EXCL
ExclusionOverrideWitness ==
    /\ Shown
    /\ \E k \in 1..Len(View) :
        /\ ~Has(View[k], "VNIC")
        /\ Has(View[k], "ADDR") /\ View[k]["ADDR"] \in Items(vnic_info.exclude)
        /\ Tag(View[k]) = "EXCL"

\* C7 as stated: the record carrying IS_PRIMARY is never tagged DELETE nor EXCL
PrimaryNeverDeleteNorExcl ==
    Shown => \A k \in 1..Len(View) :
        Has(View[k], "IS_PRIMARY") => Tag(View[k]) \notin {"DELETE", "EXCL"}

\* C7 amended: the record carrying IS_PRIMARY is never tagged DELETE, and it is
\* tagged EXCL exactly when an exclusion item names its device, VNIC or address
PrimaryNeverDelete ==
    Shown => \A k \in 1..Len(View) :
        Has(View[k], "IS_PRIMARY") =>
            /\ Tag(View[k]) # "DELETE"
            /\ Tag(View[k]) = "EXCL" <=> Matched(View[k])

\* C7 witness: the primary is excluded by its VNIC id and is returned tagged EXCL
PrimaryExcludedWitness ==
    /\ Shown
    /\ \E k \in 1..Len(View) :
        /\ Has(View[k], "IS_PRIMARY")
        /\ View[k]["VNIC"] \in Items(vnic_info.exclude)
        /\ Tag(View[k]) = "EXCL"

\* C8: a retained device that is no virtual function, has an address, matches no
\* exclusion item and whose MAC the metadata does not list is its own record,
\* tagged DELETE
OrphanTaggedDelete ==
    Shown =>
        \A d \in RetainedDevices :
            (~d.is_vf /\ d.addresses # <<>> /\ d.mac \notin MetadataMacs
                /\ Items(vnic_info.exclude) \cap {d.device, d.addresses[1]} = {})
            => \E k \in BuiltFrom(d) :
                  /\ ~Has(View[k], "VNIC")
                  /\ Get(View[k], "IFACE") = d.device
                  /\ Tag(View[k]) = "DELETE"

\* C9: a record built from a virtual-function device without address is never
\* tagged DELETE
VfDeleteSuppression ==
    Shown =>
        \A d \in RetainedDevices :
            (d.is_vf /\ d.addresses = <<>>)
            => \A k \in BuiltFrom(d) : Tag(View[k]) # "DELETE"

\* C9 witness: a virtual function without address whose MAC the metadata does not
\* list is returned as its own record, tagged '-'
VfDeleteSuppressionWitness ==
    /\ Shown
    /\ \E d \in RetainedDevices :
        /\ d.is_vf /\ d.addresses = <<>> /\ d.mac \notin MetadataMacs
        /\ \E k \in BuiltFrom(d) : ~Has(View[k], "VNIC") /\ Tag(View[k]) = "-"

\* the devices of the inventory that get_network_config retains and that have
\* the MAC address of the k-th VNIC
Candidates(k) ==
    {p \in 1..Len(devices) : Retained(devices[p]) /\ devices[p].mac = Upper(vnics[k].macAddr)}

\* more than two devices have the MAC address of one VNIC
Ambiguous == \E k \in 1..Len(vnics) : Cardinality(Candidates(k)) > 2

\* C18: when more than two devices have the MAC address of one VNIC,
\* get_network_config still returns a list; the record of that VNIC carries an
\* error tag and takes nothing from a device (no device name), and every VNIC
\* has its record.
AmbiguityIsolated ==
    (last.op = "get_network_config" /\ Ambiguous) =>
        /\ ~last.raised
        /\ \A k \in 1..Len(vnics) :
               /\ \E j \in 1..Len(View) : Get(View[j], "VNIC") = vnics[k].vnicId
               /\ Cardinality(Candidates(k)) > 2 =>
                      \A j \in 1..Len(View) :
                          Get(View[j], "VNIC") = vnics[k].vnicId =>
                              /\ Get(View[j], "IFACE") = Missing
                              /\ Tag(View[j]) \notin {"ADD", "-", "DELETE"}

\* the positions of the view whose record carries IS_PRIMARY
Primaries == {j \in 1..Len(View) : IsPrimary(View[j])}

\* C19: in a list get_network_config returns, at most one record carries
\* IS_PRIMARY; it is the record of the first VNIC of the metadata, and a record
\* built from a device alone (no VNIC) does not carry it.
PrimaryUnique ==
    Shown =>
        /\ Cardinality(Primaries) <= 1
        /\ \A j \in Primaries :
               Has(View[j], "VNIC") /\ View[j]["VNIC"] = vnics[1].vnicId

\* the view holds the record of the first VNIC, carrying IS_PRIMARY and merged
\* with its device, the record of a second VNIC and a record built from a device
PrimaryUniqueWitness ==
    /\ Shown
    /\ Primaries = {1}
    /\ Has(View[1], "IFACE")
    /\ \E j \in 1..Len(View) : Has(View[j], "VNIC") /\ View[j]["VNIC"] = VnicIds[2]
    /\ \E j \in 1..Len(View) : ~Has(View[j], "VNIC") /\ Has(View[j], "IFACE")

\* the devices still in the pool when the correlation loop reaches the k-th VNIC
\* that have its MAC address: none if an earlier VNIC has the same address
Pending(k) ==
    IF \E j \in 1..(k - 1) : Upper(vnics[j].macAddr) = Upper(vnics[k].macAddr)
    THEN {}
    ELSE Candidates(k)

\* C30: in a list get_network_config returns, the record of a VNIC that no
\* exclusion item names is tagged ADD when no device of the pool has its MAC
\* address; when exactly one has, it is tagged '-' if that device has an address
\* and ADD if not; and no device that has the MAC address of a VNIC is returned
\* as a record of its own.
CorrelationTagRule ==
    Shown =>
        \A k \in 1..Len(vnics) :
            /\ Get(View[k], "VNIC") = vnics[k].vnicId
            /\ (~Matched(View[k]) /\ Pending(k) = {}) => Tag(View[k]) = "ADD"
            /\ \A p \in Pending(k) :
                   (~Matched(View[k]) /\ Pending(k) = {p}) =>
                       Tag(View[k]) = IF devices[p].addresses # <<>> THEN "-" ELSE "ADD"
            /\ \A p \in Candidates(k) : \A j \in BuiltFrom(devices[p]) : Has(View[j], "VNIC")

\* the first VNIC has one device, with an address, and is tagged '-'; the second
\* has one, without address, and is tagged ADD
CorrelationTagRuleWitness ==
    /\ Shown
    /\ Len(vnics) = 2
    /\ \E p \in 1..Len(devices) :
           /\ Pending(1) = {p} /\ devices[p].addresses # <<>> /\ Tag(View[1]) = "-"
    /\ \E p \in 1..Len(devices) :
           /\ Pending(2) = {p} /\ devices[p].addresses = <<>> /\ Tag(View[2]) = "ADD"

-----------------------------------------------------------------------------
(* Properties of the operations on a host *)

\* the last operation is one of those that issue commands
Engine == last.op \in {"auto_config", "auto_deconfig", "del_private_ip"}

\* an item of the exclusion list the last operation started with names the
\* record's device, VNIC or address
NamedBy(exclude, r) ==
    \E x \in Items(exclude) :
        \/ Has(r, "IFACE") /\ r["IFACE"] = x
        \/ Has(r, "VNIC") /\ r["VNIC"] = x
        \/ Has(r, "ADDR") /\ r["ADDR"] = x

\* a record the partition loop of auto_config is to queue
Eligible(exclude, r) ==
    /\ ~IsPrimary(r)
    /\ ~NamedBy(exclude, r)
    /\ Tag(r) \in {"ADD", "DELETE"}

\* a command was issued for the VNIC or the device of the record
Processed(r) ==
    \E k \in 1..Len(cmds) :
        /\ Get(cmds[k].intf, "VNIC") = Get(r, "VNIC")
        /\ Get(cmds[k].intf, "MAC") = Get(r, "MAC")

\* C1: whatever auto_config, auto_deconfig and del_private_ip calls were made, no
\* command of the last call was issued for the record that carries IS_PRIMARY
PrimaryNeverMutated ==
    Engine => \A k \in 1..Len(cmds) : ~IsPrimary(cmds[k].intf)

\* C2: no command of the last auto_config, auto_deconfig or del_private_ip call
\* was issued for a record whose device name, VNIC id or address was in the
\* exclusion list when the call was made
ExcludedNeverMutated ==
    Engine => \A k \in 1..Len(cmds) : ~NamedBy(last.exclude, cmds[k].intf)

AutoConfigCompletes ==
    last.op = "auto_config" => ~last.raised /\ last.rc = 0

\* C10: an auto_config that follows an auto_config none of whose commands failed
\* issues no command, and every record of its view is tagged '-' or EXCL
AutoConfigIdempotent ==
    (last.op = "auto_config" /\ prev.op = "auto_config" /\ prev.clean) =>
        /\ cmds = <<>>
        /\ \A k \in 1..Len(last.interfaces) : Tag(last.interfaces[k]) \in {"-", "EXCL"}

\* a record auto_deconfig is to tear down when no secondary address is given:
\* non-primary, not excluded, configured
ToTearDown(exclude, r) ==
    /\ ~IsPrimary(r)
    /\ ~NamedBy(exclude, r)
    /\ Tag(r) # "ADD"

\* C16: an auto_deconfig without secondary address issues teardown commands for
\* every non-primary, non-excluded, configured record of its view, whichever
\* command of the pass failed.
DeconfigFailureIsolated ==
    (last.op = "auto_deconfig" /\ last.arg = <<>>) =>
        \A k \in 1..Len(last.interfaces) :
            ToTearDown(last.exclude, last.interfaces[k])
                => \E c \in 1..Len(cmds) : cmds[c].intf = last.interfaces[k]

\* a command of the last operation, issued for the VNIC of record r, that
\* succeeded with an effect of kind kind
Did(r, kind) ==
    {c \in 1..Len(cmds) : /\ Get(cmds[c].intf, "VNIC") = Get(r, "VNIC")
                          /\ cmds[c].ok
                          /\ cmds[c].effect.kind = kind}

\* C20: on a VM shape without namespace preference, auto_config tags ADD a
\* non-primary, non-excluded VNIC no device of the inventory has the MAC address
\* of, and for it brings the link up, adds ADDR/SBITS, creates the routing
\* table, adds the default route via VIRTRT into it and the rule from ADDR.
ScenarioB ==
    (last.op = "auto_config" /\ ~IsBM(shape)) =>
        \A k \in 1..Len(last.interfaces) :
            LET r == last.interfaces[k]
            IN  (/\ Has(r, "VNIC") /\ ~Has(r, "IFACE")
                 /\ ~IsPrimary(r) /\ ~NamedBy(last.exclude, r))
                => /\ Tag(r) = "ADD"
                   /\ Did(r, "link_up") # {}
                   /\ \E c \in Did(r, "addr_add") : cmds[c].effect.addr = Get(r, "ADDR")
                   /\ \E c \in Did(r, "table_add") :
                          cmds[c].effect.name = _compute_routing_table_name(shape, cmds[c].intf)
                   /\ \E c \in 1..Len(cmds) :
                          /\ cmds[c].ok
                          /\ cmds[c].argv[1] = "NetworkHelpers.add_static_ip_route"
                          /\ cmds[c].argv[4] = Get(r, "VIRTRT")
                   /\ \E c \in Did(r, "rule_add") : cmds[c].effect.from = Get(r, "ADDR")

-----------------------------------------------------------------------------
(* Properties of the executors *)

\* the routing-table names the commands of the last operation carry, each with
\* the record it was computed from
TableNames ==
    {[name |-> cmds[k].effect.name, intf |-> cmds[k].intf] :
        k \in {j \in 1..Len(cmds) : cmds[j].effect.kind \in {"table_add", "table_del"}}}
    \cup {[name |-> cmds[k].effect.table, intf |-> cmds[k].intf] :
        k \in {j \in 1..Len(cmds) : cmds[j].effect.kind = "rule_add"}}

\* C11: every routing-table name computed for a record is 'ort<NIC_I>vl<VLTAG>' on
\* a shape that starts with 'BM' and 'ort<IND>' on any other shape: it depends on
\* the shape and these three fields only, so two calls for the same tuple agree.
RoutingTableNameFormat ==
    \A t \in TableNames :
        /\ IsBM(shape) =>
               t.name = "ort" \o Get(t.intf, "NIC_I") \o "vl" \o Get(t.intf, "VLTAG")
        /\ ~IsBM(shape) => t.name = "ort" \o Get(t.intf, "IND")
        /\ \A u \in TableNames :
               /\ Get(u.intf, "NIC_I") = Get(t.intf, "NIC_I")
               /\ Get(u.intf, "VLTAG") = Get(t.intf, "VLTAG")
               /\ Get(u.intf, "IND") = Get(t.intf, "IND")
               => u.name = t.name

\* a table named after NIC 0 and VLAN tag 5 is created on a bare-metal shape
RoutingTableNameWitness ==
    /\ shape = "BM.GPU3.8"
    /\ \E k \in 1..Len(cmds) : cmds[k].ok /\ cmds[k].effect = TableAdd("ort0vl5")

\* the first auto_deconfig after a configure pass just ended
TornDown == before.stage = "deconfigured"

\* C12: when the auto_deconfig that follows a configure pass computes the name of
\* a routing table to remove, the tables the pass created are removed: the host
\* has no routing table it did not have before the pass.
NoRoutingTableLeak ==
    (TornDown /\ \E k \in 1..Len(cmds) : cmds[k].effect.kind = "table_del")
        => host.tables \subseteq before.host.tables

\* what of the host a configuration changes: the devices with their namespace,
\* kind and addresses, the routing tables, the policy rules, the namespaces and
\* the MAC addresses NetworkManager leaves alone
Footprint(devs, h) ==
    [devices |-> {[device |-> devs[p].device, ns |-> devs[p].ns, link |-> devs[p].link,
                   subtype |-> devs[p].subtype, addresses |-> devs[p].addresses] :
                      p \in 1..Len(devs)},
     tables |-> h.tables, rules |-> h.rules, netns |-> h.netns,
     unmanaged |-> h.unmanaged]

\* C13: when auto_deconfig without secondary address returns after a configure
\* pass (the VNIC still attached, no command made to fail), the host has the
\* devices, addresses, rules, tables, namespaces and unmanaged MACs it had before
\* the pass, with or without a namespace preference, on VM and bare-metal shapes.
TeardownReversesSetup ==
    (TornDown /\ ~before.detached /\ last.arg = <<>> /\ ~last.raised)
        => Footprint(devices, host) = Footprint(before.devices, before.host)

-----------------------------------------------------------------------------
(* Properties of the operations on the preferences *)

\* the record is the one of VNIC vnic_id and its address is ipaddr
Matches(r, ipaddr, vnic_id) == Get(r, "VNIC") = vnic_id /\ Get(r, "ADDR") = ipaddr

\* operation l is a del_private_ip whose pair matches no record of the view
NotFound(l) ==
    /\ l.op = "del_private_ip"
    /\ ~l.raised
    /\ \A k \in 1..Len(l.interfaces) : ~Matches(l.interfaces[k], l.arg[1], l.arg[2])

HeldBy(r, ipaddr, vnic_id) ==
    /\ Get(r, "VNIC") = vnic_id
    /\ ~IsPrimary(r)
    /\ ipaddr \in {Get(r, "ADDR"), Get(r, "SECONDARY_ADDR")}

\* C15: del_private_ip(ip, vnic) for a pair add_private_ip recorded, the device of
\* the non-primary VNIC holding ip, issues the removal of the rules of ip and of
\* ip from that device, and drops the pair from sec_priv_ip.
SecondaryIpRemoved ==
    [][\A k \in 1..Len(last'.interfaces) :
           (/\ last'.op = "del_private_ip" /\ ~last'.raised
            /\ last'.arg \in Items(vnic_info.sec_priv_ip)
            /\ HeldBy(last'.interfaces[k], last'.arg[1], last'.arg[2]))
           => /\ \E c \in 1..Len(cmds') : cmds'[c].effect = RulesDel(last'.arg[1])
              /\ \E c \in 1..Len(cmds') :
                     /\ cmds'[c].effect.kind = "addr_del"
                     /\ cmds'[c].effect.addr = last'.arg[1]
                     /\ cmds'[c].effect.dev = Get(last'.interfaces[k], "IFACE")
              /\ last'.arg \notin Items(vnic_info'.sec_priv_ip)]_vars

\* C17: exclude(item) and include(item) change nothing but the exclusion list,
\* which then holds, or no longer holds, the item; the list they leave is a
\* function of the list they found and of the item alone, whatever the metadata
\* and the inventory are, and no view is computed; a changed list is on file
\* when the call returns; no command is issued, devices and host are untouched.
ExcludeIncludeFrame ==
    [][last'.op \in {"exclude", "include"} =>
           /\ [vnic_info' EXCEPT !.exclude = vnic_info.exclude] = vnic_info
           /\ last'.op = "exclude" =>
                  vnic_info'.exclude = IF last'.arg[1] \in Items(vnic_info.exclude)
                                       THEN vnic_info.exclude
                                       ELSE Append(vnic_info.exclude, last'.arg[1])
           /\ last'.op = "include" =>
                  vnic_info'.exclude = Remove(vnic_info.exclude, last'.arg[1])
           /\ vnic_info'.exclude # vnic_info.exclude => saved' = vnic_info'
           /\ cmds' = <<>> /\ devices' = devices /\ host' = host
           /\ last'.interfaces = <<>>
           /\ ~last'.raised /\ last'.rc = 0]_vars

\* exclude put a new item in the list, next to a recorded secondary address,
\* and the list is on file
ExcludeIncludeWitness ==
    /\ last.op = "exclude"
    /\ last.arg[1] \notin Items(last.exclude)
    /\ last.arg[1] \in Items(vnic_info.exclude)
    /\ vnic_info.sec_priv_ip # <<>>
    /\ saved = vnic_info

-----------------------------------------------------------------------------
(* Properties of the preferences file *)

\* the get_vnic_info that just ended found no vnic_info file and a net_exclude
\* file
Migrated ==
    /\ last.op = "get_vnic_info"
    /\ last.arg[1] = NoFile
    /\ last.arg[2].exists

\* C21: a get_vnic_info that finds no vnic_info file and a net_exclude file
\* holding a list returns preferences whose 'exclude' is that list, leaves them
\* in the vnic_info file and leaves no net_exclude file; a get_vnic_info that
\* comes right after it returns the same exclusion list.
PreferenceMigration ==
    [][ last'.op = "get_vnic_info" =>
          /\ (saved = NoFile /\ net_exclude.exists) =>
                 /\ vnic_info'.exclude = net_exclude.content
                 /\ saved' # NoFile
                 /\ saved'.exclude = net_exclude.content
                 /\ net_exclude' = NoFile
          /\ Migrated => vnic_info'.exclude = last.arg[2].content ]_vars

PreferenceMigrationWitness ==
    /\ Migrated
    /\ last.arg[2].content # <<>>
    /\ vnic_info.exclude = last.arg[2].content
    /\ saved # NoFile
    /\ net_exclude = NoFile

-----------------------------------------------------------------------------
(* Properties of the configure loop *)

\* the step of the setup of one interface a command belongs to: 1 link up,
\* 2 namespace creation, 3 macvlan and VLAN creation, 4 move into the namespace,
\* 5 address assignment, 6 MTU and up, 7 NetworkManager, 8 routing
SetupStep(c) ==
    CASE c.effect.kind = "link_up" /\ "mtu" \notin Items(c.argv) -> 1
      [] c.effect.kind = "netns_add" -> 2
      [] c.effect.kind = "link_add" -> 3
      [] c.effect.kind = "none" /\ "link" \in Items(c.argv) -> 3
      [] c.effect.kind = "link_netns" -> 4
      [] c.effect.kind = "addr_add" -> 5
      [] c.effect.kind = "link_up" -> 6
      [] c.effect.kind = "nm_unmanage" -> 7
      [] OTHER -> 8

\* the positions of the commands of the last operation issued for VNIC v
CmdsFor(v) == {k \in 1..Len(cmds) : Get(cmds[k].intf, "VNIC") = v}

\* the steps the setup of the record takes when nothing fails
StepsDue(intf) ==
    (IF Get(intf, "STATE") # "up" THEN {1} ELSE {})
    \cup (IF "ns" \in DOMAIN vnic_info THEN {2, 4} ELSE {})
    \cup (IF IsBM(shape) /\ Get(intf, "VLTAG") # "0" THEN {3} ELSE {})
    \cup {5, 6, 7, 8}

\* a command whose result the code tests
Tested(c) ==
    /\ c.effect.kind \notin {"nm_unmanage", "table_add"}
    /\ ~(c.effect.kind = "none" /\ "link" \in Items(c.argv))

\* in a configure pass the commands of each interface follow the order of the
\* steps, take the steps due when none fails, and a command that fails is the
\* last of its interface; strict: whichever command it is, else when it is one
\* whose result the code tests
SetupOrdered(strict) ==
    last.op = "configure" =>
        \A v \in {vnics[k].vnicId : k \in 1..Len(vnics)} :
            /\ \A i, j \in CmdsFor(v) :
                   i < j => /\ SetupStep(cmds[i]) <= SetupStep(cmds[j])
                            /\ (strict \/ Tested(cmds[i])) => cmds[i].ok
            /\ \A i \in CmdsFor(v) : SetupStep(cmds[i]) \in StepsDue(cmds[i].intf)
            /\ (CmdsFor(v) # {} /\ \A i \in CmdsFor(v) : cmds[i].ok) =>
                   \A i \in CmdsFor(v) :
                       {SetupStep(cmds[j]) : j \in CmdsFor(v)} = StepsDue(cmds[i].intf)

-----------------------------------------------------------------------------
(* Properties of the namespace of the configured interfaces *)

\* the namespaces of the host when the command at position k of the last pass
\* was issued
NetnsAt(k) == HostEffects(before.host, SubSeq(cmds, 1, k - 1)).netns

\* the commands of the last pass that succeeded in moving a device of VNIC v into
\* a namespace
Placed(v) == {k \in CmdsFor(v) : cmds[k].effect.kind = "link_netns" /\ cmds[k].ok}

\* C24: with an explicit namespace name configured, a configure pass issues the
\* command that creates the namespace only while the namespace does not exist
NamespaceCreatedIfAbsent ==
    (last.op = "configure" /\ "ns" \in DOMAIN vnic_info /\ vnic_info.ns # "") =>
        \A k \in 1..Len(cmds) :
            cmds[k].effect.kind = "netns_add" => cmds[k].effect.ns \notin NetnsAt(k)

\* the positions of the commands of the last pass that create a namespace or
\* move a device into one
NetnsCmds == {k \in 1..Len(cmds) : cmds[k].effect.kind \in {"netns_add", "link_netns"}}

\* C25: in a configure pass every namespace created and every namespace a
\* device is moved into is the one named by the 'ns' preference when that is a
\* non-empty string, 'ons' followed by the device name of the interface the
\* command is issued for when it is the empty string, and no namespace is
\* created or used when 'ns' was never set
NamespaceNameResolution ==
    last.op = "configure" =>
        IF "ns" \notin DOMAIN vnic_info THEN NetnsCmds = {}
        ELSE \A k \in NetnsCmds :
                 cmds[k].effect.ns = IF vnic_info.ns # "" THEN vnic_info.ns
                                     ELSE "ons" \o Get(cmds[k].intf, "IFACE")

-----------------------------------------------------------------------------
(* Properties of the routing of a configured interface *)

\* the positions of the commands of the last operation that start sshd
SshdCmds == {k \in 1..Len(cmds) : "/usr/sbin/sshd" \in Items(cmds[k].argv)}

\* C26: routing an interface starts sshd in its namespace exactly when the
\* 'sshd' preference is true (a namespace being used and the default route
\* installed): not after set_sshd(False), not when set_sshd was never called
SshdPerPreference ==
    last.op = "routing" =>
        (SshdCmds # {} <=>
            /\ "sshd" \in DOMAIN vnic_info /\ vnic_info.sshd = TRUE
            /\ "ns" \in DOMAIN vnic_info
            /\ cmds # <<>> /\ cmds[1].ok)

\* the record the last routing was applied to
Routed == last.interfaces[1]

\* the outermost device of a record: the VLAN device on bare metal with a
\* non-zero VLAN tag, else the device itself
Outermost(intf) ==
    IF IsBM(shape) /\ Get(intf, "VLTAG") # "0"
    THEN Get(intf, "IFACE") \o "v" \o Get(intf, "VLTAG")
    ELSE Get(intf, "IFACE")

\* the table derived for a record: from NIC index and VLAN tag on bare metal,
\* from the interface index elsewhere
Derived(intf) ==
    IF IsBM(shape) THEN "ort" \o Get(intf, "NIC_I") \o "vl" \o Get(intf, "VLTAG")
    ELSE "ort" \o Get(intf, "IND")

\* C27: routing an interface that uses a namespace installs only a default
\* route via VIRTRT inside the namespace and creates no table and no rule;
\* otherwise it creates the derived table, then installs a default route via
\* VIRTRT through the outermost device into that table, then a rule from ADDR
\* looking up that table, and it raises exactly when the route or the rule
\* failed, the rule not being installed after a route that failed
RoutingPerInterface ==
    last.op = "routing" =>
        IF "ns" \in DOMAIN vnic_info
        THEN /\ Len(cmds) >= 1
             /\ SubSeq(cmds[1].argv, 1, 5)
                    = <<"NetworkHelpers.add_static_ip_route", "default", "via",
                        Get(Routed, "VIRTRT"), "namespace">>
             /\ \A k \in 2..Len(cmds) : k \in SshdCmds
             /\ \A k \in 1..Len(cmds) : cmds[k].effect.kind \notin {"table_add", "rule_add"}
             /\ host.tables = before.host.tables /\ host.rules = before.host.rules
             /\ ~cmds[1].ok => last.raised /\ Len(cmds) = 1
        ELSE /\ Len(cmds) \in {2, 3}
             /\ cmds[1].effect = TableAdd(Derived(Routed))
             /\ cmds[2].argv = <<"NetworkHelpers.add_static_ip_route", "default", "via",
                                 Get(Routed, "VIRTRT"), "dev", Outermost(Routed),
                                 "table", Derived(Routed)>>
             /\ Len(cmds) = 3 <=> cmds[2].ok
             /\ Len(cmds) = 3 =>
                    /\ cmds[3].argv = <<"NetworkHelpers.add_static_ip_rule", "from",
                                        Get(Routed, "ADDR"), "lookup", Derived(Routed)>>
                    /\ cmds[3].effect = RuleAdd(Get(Routed, "ADDR"), Derived(Routed))
             /\ last.raised <=> ~cmds[Len(cmds)].ok

\* an interface was routed through table, route and rule, a namespace was then
\* requested and the interface routed again by the default route alone
RoutingPerInterfaceWitness ==
    /\ last.op = "routing" /\ ~last.raised
    /\ "ns" \in DOMAIN vnic_info
    /\ Len(cmds) = 1 /\ cmds[1].ok
    /\ IsBM(shape)
    /\ host.tables = {Derived(Routed)}
    /\ host.rules = {[from |-> Get(Routed, "ADDR"), table |-> Derived(Routed)]}

-----------------------------------------------------------------------------
(* Properties of the teardown of an interface *)

\* the step of the teardown of one interface a command belongs to: 1 processes
\* of the namespace killed, 2 rules and routing table removed, 3 VLAN stack or
\* primary address deleted, 4 rules of the address removed, 5 namespace
\* destroyed, 6 NetworkManager
TeardownStep(c) ==
    CASE c.argv[1] = "NetworkHelpers.kill_processes_in_namespace" -> 1
      [] c.effect.kind = "table_del" -> 2
      [] c.effect.kind = "rules_del" /\ c.effect.of # Get(c.intf, "ADDR") -> 2
      [] c.effect.kind \in {"link_del", "addr_del"} -> 3
      [] c.effect.kind = "rules_del" -> 4
      [] c.effect.kind = "netns_del" -> 5
      [] c.effect.kind = "nm_manage" -> 6
      [] OTHER -> 0

\* the positions of the commands of the last operation issued for the record
CmdsOf(intf) == {k \in 1..Len(cmds) : cmds[k].intf = intf}

\* the steps the teardown of the record takes when nothing fails
TeardownDue(intf) ==
    (IF Has(intf, "NS") THEN {1, 5} ELSE {2})
    \cup (IF Has(intf, "VLAN") \/ Has(intf, "ADDR") THEN {3} ELSE {})
    \cup (IF ~Has(intf, "VLAN") /\ Has(intf, "ADDR") THEN {4} ELSE {})
    \cup {6}

\* a teardown command whose result the code tests
TeardownTested(c) == c.effect.kind \in {"link_del", "addr_del", "netns_del"}

\* in auto_deconfig the commands of each record follow the order of the steps,
\* a VLAN stack is deleted and else the address, the steps due are all taken
\* when no command fails, and NetworkManager is given the MAC back only when no
\* command before it failed; strict: whichever command, else one whose result
\* the code tests
TeardownOrdered(strict) ==
    (last.op = "auto_deconfig" /\ last.arg = <<>>) =>
        \A n \in 1..Len(cmds) :
            LET intf == cmds[n].intf
            IN  /\ TeardownStep(cmds[n]) \in TeardownDue(intf)
                /\ cmds[n].effect.kind = "link_del" <=>
                       (TeardownStep(cmds[n]) = 3 /\ Has(intf, "VLAN"))
                /\ \A i \in CmdsOf(intf) :
                       i < n => /\ TeardownStep(cmds[i]) <= TeardownStep(cmds[n])
                                /\ (TeardownStep(cmds[n]) = 6 /\
                                       (strict \/ TeardownTested(cmds[i]))) => cmds[i].ok
                /\ (\A i \in CmdsOf(intf) : cmds[i].ok) =>
                       {TeardownStep(cmds[i]) : i \in CmdsOf(intf)} = TeardownDue(intf)

-----------------------------------------------------------------------------
(* Properties of the phases of auto_config *)

\* the secondary addresses given to the last auto_config
SecondaryGiven == {last.arg[k][1] : k \in 1..Len(last.arg)}

\* the records of the view the last auto_config is to configure: non-primary,
\* not excluded, tagged ADD
ToConfigure ==
    {r \in Items(last.interfaces) :
        ~IsPrimary(r) /\ ~NamedBy(last.exclude, r) /\ Tag(r) = "ADD"}

\* the phase a command belongs to: 3 when it adds a secondary address or its
\* rule, 2 when it tears down a record tagged DELETE, else 1
Phase(c) ==
    CASE c.effect.kind = "addr_add" /\ c.effect.addr \in SecondaryGiven -> 3
      [] c.effect.kind = "rule_add" /\ c.effect.from \in SecondaryGiven -> 3
      [] Tag(c.intf) = "DELETE" -> 2
      [] OTHER -> 1

SecondaryAddressesConfigured ==
    last.op = "auto_config" =>
        \A r \in ToConfigure : \A k \in 1..Len(last.arg) :
            last.arg[k][2] = Get(r, "VNIC") =>
                /\ Cardinality({c \in 1..Len(cmds) :
                                   /\ cmds[c].effect.kind = "addr_add"
                                   /\ cmds[c].effect.addr = last.arg[k][1]}) = 1
                /\ Cardinality({c \in 1..Len(cmds) :
                                   /\ cmds[c].effect.kind = "rule_add"
                                   /\ cmds[c].effect.from = last.arg[k][1]}) = 1
                /\ \A c \in 1..Len(cmds) :
                       (cmds[c].effect.kind = "rule_add"
                        /\ cmds[c].effect.from = last.arg[k][1])
                       => \E d \in Did(r, "rule_add") :
                              /\ cmds[d].effect.from = Get(r, "ADDR")
                              /\ cmds[d].effect.table = cmds[c].effect.table

-----------------------------------------------------------------------------
(* Properties of the merge of a VNIC with the devices of its MAC address *)

\* C31: in a list get_network_config returns, the record of a VNIC merged with
\* the single device of its MAC address keeps the value of the metadata in
\* ADDR, MAC, VLTAG, VNIC, SPREFIX, SBITS and VIRTRT, also when the device has
\* another primary address
MetadataPrecedence ==
    Shown =>
        \A k \in 1..Len(vnics) :
            Cardinality(Pending(k)) = 1 =>
                /\ Get(View[k], "ADDR") = vnics[k].privateIp
                /\ Get(View[k], "MAC") = Upper(vnics[k].macAddr)
                /\ Get(View[k], "VLTAG") = vnics[k].vlanTag
                /\ Get(View[k], "VNIC") = vnics[k].vnicId
                /\ Get(View[k], "SPREFIX") = vnics[k].subnetCidrBlock[1]
                /\ Get(View[k], "SBITS") = vnics[k].subnetCidrBlock[2]
                /\ Get(View[k], "VIRTRT") = vnics[k].virtualRouterIp

\* C32: in a list get_network_config returns, the record of a VNIC of whose MAC
\* address the pool holds exactly two devices, a macvlan and a VLAN device, has
\* for IFACE the link of the macvlan and for VLAN the name of the VLAN device,
\* and, no exclusion item naming it, is tagged '-' when the VLAN device has an
\* address and ADD when it has none
TwoCandidateCorrelation ==
    Shown =>
        \A k \in 1..Len(vnics) : \A p, q \in Pending(k) :
            (/\ Pending(k) = {p, q}
             /\ devices[p].subtype = "macvlan"
             /\ devices[q].subtype = "vlan") =>
                /\ Get(View[k], "IFACE") = devices[p].link
                /\ Get(View[k], "VLAN") = devices[q].device
                /\ ~Matched(View[k]) =>
                       Tag(View[k]) = IF devices[q].addresses # <<>> THEN "-" ELSE "ADD"

\* a VNIC was merged with its macvlan on ens3 and its VLAN device, which has an
\* address
TwoCandidateWitness ==
    /\ Shown
    /\ \E k \in 1..Len(vnics) : \E p, q \in Pending(k) :
           /\ Pending(k) = {p, q}
           /\ devices[p].subtype = "macvlan" /\ devices[q].subtype = "vlan"
           /\ devices[q].addresses # <<>>
           /\ Get(View[k], "IFACE") = DevNames[1]
           /\ Get(View[k], "VLAN") = DevNames[1] \o "v5"
           /\ Tag(View[k]) = "-"

-----------------------------------------------------------------------------
(* Properties of the device-name fallback on bare metal *)

\* the positions of the records of the view that have a device name and the NIC
\* index idx
NamedAt(idx) ==
    {k \in 1..Len(last.interfaces) :
        Has(last.interfaces[k], "IFACE") /\ Get(last.interfaces[k], "NIC_I") = idx}

\* the records to configure that have no device name
Nameless == {r \in ToConfigure : ~Has(r, "IFACE")}

-----------------------------------------------------------------------------
(* Properties of the lists of the preferences *)

\* no item is twice in the list
Distinct(l) == \A i, j \in 1..Len(l) : l[i] = l[j] => i = j

\* the items of l that are not in the set gone, in the order of l
Without(l, gone) == LET keep(y) == y \notin gone IN SelectSeq(l, keep)

\* C34: exclude and include leave a list without duplicates without duplicates;
\* after exclude(x) x is in the list, and the list is unchanged when x was in
\* it; after include(x) x is not in the list; include(x) right after an
\* exclude(x) that added x gives back the list before the exclude
ExclusionMembership ==
    [][/\ Distinct(vnic_info.exclude) => Distinct(vnic_info'.exclude)
       /\ last'.op = "exclude" =>
              /\ last'.arg[1] \in Items(vnic_info'.exclude)
              /\ last'.arg[1] \in Items(vnic_info.exclude)
                     => vnic_info'.exclude = vnic_info.exclude
       /\ last'.op = "include" => last'.arg[1] \notin Items(vnic_info'.exclude)
       /\ (/\ last.op = "exclude" /\ last'.op = "include"
           /\ last'.arg = last.arg
           /\ last.arg[1] \notin Items(last.exclude))
              => vnic_info'.exclude = last.exclude]_vars

\* include(x) was called on a list of three items that ends with x and left
\* the two others
ExclusionMembershipWitness ==
    /\ last.op = "include"
    /\ Len(last.exclude) = 3
    /\ last.exclude[3] = last.arg[1]
    /\ vnic_info.exclude = SubSeq(last.exclude, 1, 2)

\* C35: delete_all_private_ips(vnic_id) removes from sec_priv_ip the entries of
\* VNIC vnic_id and no other, removes from the exclusion list the addresses of
\* the entries removed and no other item, and saves the preferences it leaves
DeleteAllFrame ==
    [][last'.op = "delete_all_private_ips" =>
          LET v == last'.arg[1]
              gone == {e \in Items(vnic_info.sec_priv_ip) : e[2] = v}
          IN  /\ vnic_info'.sec_priv_ip = Without(vnic_info.sec_priv_ip, gone)
              /\ vnic_info'.exclude = Without(vnic_info.exclude, {e[1] : e \in gone})
              /\ DOMAIN vnic_info' = DOMAIN vnic_info
              /\ saved' = vnic_info']_vars

\* delete_all_private_ips removed an entry and its excluded address and left an
\* entry of another VNIC and another excluded item
DeleteAllWitness ==
    /\ last.op = "delete_all_private_ips"
    /\ Len(vnic_info.exclude) = 1 /\ Len(last.exclude) = 2
    /\ Len(vnic_info.sec_priv_ip) = 1
    /\ vnic_info.sec_priv_ip[1][2] # last.arg[1]
    /\ saved = vnic_info

-----------------------------------------------------------------------------
(* Properties of a configure pass in which the setup of an interface fails *)

\* what the command at position k of the last pass did is still so
Remains(k) ==
    LET e == cmds[k].effect
    IN  CASE e.kind = "netns_add" -> e.ns \in host.netns
          [] e.kind = "link_add" -> \E p \in 1..Len(devices) : devices[p].device = e.dev
          [] e.kind = "link_netns" -> Exists(devices, e.dev, e.ns)
          [] e.kind = "addr_add" ->
                 \E p \in 1..Len(devices) :
                     /\ devices[p].device = e.dev /\ devices[p].ns = e.ns
                     /\ e.addr \in Items(devices[p].addresses)
          [] e.kind = "nm_unmanage" -> e.mac \in host.unmanaged
          [] e.kind = "table_add" -> e.name \in host.tables
          [] OTHER -> TRUE

\* the commands of VNIC v in the last pass that failed and ended its setup
Stopped(v) == {k \in CmdsFor(v) : ~cmds[k].ok /\ Tested(cmds[k])}

\* the commands of the last pass that disabled NetworkManager for a MAC
Disabling == {k \in 1..Len(cmds) : cmds[k].effect.kind = "nm_unmanage" /\ cmds[k].ok}

\* C36: in a configure pass, what the commands that succeeded for an interface
\* whose setup failed did remains (namespace, macvlan and VLAN, device moved,
\* address, NetworkManager disabled when only routing failed); NetworkManager
\* is disabled for a MAC only by the record of that MAC after all the setup
\* steps due for it succeeded
NoRollback ==
    (last.op = "configure" /\ cmds # <<>>) =>
        /\ \A v \in {vnics[k].vnicId : k \in 1..Len(vnics)} :
               Stopped(v) # {} => \A k \in CmdsFor(v) : cmds[k].ok => Remains(k)
        /\ \A k \in Disabling :
               LET mine == {i \in CmdsFor(Get(cmds[k].intf, "VNIC")) : i < k}
               IN  /\ \A i \in mine : cmds[i].ok
                   /\ {SetupStep(cmds[i]) : i \in mine} = StepsDue(cmds[k].intf) \ {7, 8}
                   /\ cmds[k].effect.mac = Get(cmds[k].intf, "MAC")
        /\ host.unmanaged \ before.host.unmanaged = {cmds[k].effect.mac : k \in Disabling}

\* on a bare-metal host the routing of an interface failed after its macvlan and
\* VLAN were created, its address added and NetworkManager disabled for its MAC,
\* all of which remain
NoRollbackWitness ==
    /\ last.op = "configure"
    /\ \E v \in {vnics[k].vnicId : k \in 1..Len(vnics)} :
           /\ \E i \in Stopped(v) : SetupStep(cmds[i]) = 8
           /\ \E k \in Disabling \cap CmdsFor(v) :
                  cmds[k].effect.mac \in host.unmanaged \ before.host.unmanaged
           /\ \E k \in CmdsFor(v) :
                  /\ cmds[k].effect.kind = "addr_add" /\ cmds[k].ok
                  /\ \E p \in 1..Len(devices) :
                         /\ devices[p].device = cmds[k].effect.dev
                         /\ devices[p].subtype = "vlan"
                         /\ cmds[k].effect.addr \in Items(devices[p].addresses)

-----------------------------------------------------------------------------
(* Properties of sudo_utils.call *)

\* C37: call(cmd) on a non-empty cmd does not raise, runs one command line,
\* which is cmd when cmd begins with the sudo command and the sudo command
\* followed by cmd when it does not, and returns 0 exactly when the command
\* succeeded, 404 when it could not be executed and the non-zero return code of
\* the command otherwise
SudoCallContract ==
    (last.op = "call" /\ last.arg[1] # <<>>) =>
        LET cmd == last.arg[1]
            outcome == last.arg[2]
        IN  /\ ~last.raised
            /\ Len(cmds) = 1
            /\ cmds[1].argv[1] = SUDO_CMD
            /\ IF cmd[1] = SUDO_CMD THEN cmds[1].argv = cmd
               ELSE Tail(cmds[1].argv) = cmd
            /\ last.rc = 0 <=> outcome.kind = "returns"
            /\ outcome.kind = "OSError" => last.rc = 404
            /\ outcome.kind = "CalledProcessError" =>
                   last.rc = outcome.returncode /\ last.rc # 0

\* a command line that begins with the sudo command was run as it is and the
\* return code of the command, which failed, was returned
SudoCallWitness ==
    /\ last.op = "call"
    /\ Len(last.arg[1]) > 1
    /\ last.arg[1][1] = SUDO_CMD
    /\ cmds = <<[argv |-> last.arg[1], intf |-> <<>>, ok |-> FALSE, effect |-> NoEffect]>>
    /\ last.arg[2].kind = "CalledProcessError"
    /\ last.rc = 255


====
